---- MODULE Spec2Model ----
(***************************************************************************)
(* Verification model of Testground's core subsystems:                     *)
(*   - the task storage (pkg/task/storage.go) and the task queue,          *)
(*   - the coordination service (pkg/sync/service_state.go): SignalEntry,  *)
(*     Barrier, and the subtree publish/subscribe streams.                 *)
(* Each subsystem has its own specification over the shared variables.     *)
(***************************************************************************)
EXTENDS Integers, Sequences, FiniteSets, TLC

\* ------------------------------------------------------------------------
\* Bounds of the model
\* ------------------------------------------------------------------------
NumWorkers == 2
NumTasks == 2
FirstLaterID == 19
LastLaterID == 21
MaxStamp == 12
MaxStored == 2
MaxQueue == 3
MaxPriority == 2
MaxCreated == 3
NumInst == 2
NumStates == 1
MaxSignals == 3
MaxTarget == 2
NumSubs == 1
NumWriters == 2
NumValues == 2
MaxStream == 3
ChanCap == 1

VARIABLES db, txOwner, wk, persisted, won, doubleWin

storageVars == <<db, txOwner, wk, persisted, won, doubleWin>>

VARIABLES tq, popped, inq

queueVars == <<tq, popped, inq>>

VARIABLES counter, inst, active, got

syncVars == <<counter, inst, active, got>>

VARIABLES stream, wret, subs

subtreeVars == <<stream, wret, subs>>

VARIABLES comp, given, cop, cret, iv

composeVars == <<comp, given, cop, cret, iv>>

VARIABLES pods, created, mon, kctx, krun, keepService, pool, kin

k8sVars == <<pods, created, mon, kctx, krun, keepService, pool, kin>>

VARIABLES fate, xrun, proc, commands, failStart, killSent, waited, xctx

execVars == <<fate, xrun, proc, commands, failStart, killSent, waited, xctx>>

VARIABLES dsize, dcfg, drun, dnet, containers, starts, started, logs, doneCh,
          dctx, del

dockerVars ==
    <<dsize, dcfg, drun, dnet, containers, starts, started, logs, doneCh,
      dctx, del>>

\* The variables of the composition validation and of the runners.
extVars == <<composeVars, k8sVars, execVars, dockerVars>>

VARIABLES lk, call

lockVars == <<lk, call>>

\* The variables of the runner lock, the sidecar, the healthcheck and the
\* daemon.
VARIABLES networkChanges, published, subClosed, side, sideLog, sideCounter

sidecarVars ==
    <<networkChanges, published, subClosed, side, sideLog, sideCounter>>

VARIABLES activeLinks, attached, cniUp, ncall

netVars == <<activeLinks, attached, cniUp, ncall>>

VARIABLES host, hc, reports

healthVars == <<host, hc, reports>>

VARIABLES oruns, odirs

outputVars == <<oruns, odirs>>

VARIABLES breq, bh, chunks, queued

buildVars == <<breq, bh, chunks, queued>>

svcVars == <<lockVars, sidecarVars, netVars, healthVars, outputVars, buildVars>>

VARIABLES nruns

subnetVars == <<nruns>>

VARIABLES omu, ocall

\* Range scans of the task storage: the last call of Filter and its answer
VARIABLES filtered

filterVars == <<filtered>>

writerVars == <<omu, ocall>>

\* The variables of the data networks and of the response writer.
lateVars == <<subnetVars, writerVars, filterVars>>

vars == <<storageVars, queueVars, syncVars, subtreeVars, extVars, svcVars, lateVars>>

\* ========================================================================
\* Task storage (src/pkg/task/storage.go)
\* ========================================================================

\* database key prefixes
prefixScheduled == "queue"
prefixProcessing == "current"
prefixComplete == "archive"

Prefixes == {prefixScheduled, prefixProcessing, prefixComplete}

Workers == 1..NumWorkers

\* Well-formed task ids (xid strings). Id 0 stands for a string that is not
\* a xid: taskKey rejects it.
TaskIDs == 1..NumTasks
AnyIDs == 0..NumTasks

IsXid(id) == id \in TaskIDs

\* u.Time().Unix(): the second embedded in the xid. Two ids may share it.
xidTime(id) == (id + 1) \div 2

\* prefix + ":" + timestamp + "_" + id
taskKey(prefix, id) == <<prefix, xidTime(id), id>>

KeySpace == {taskKey(p, id) : p \in Prefixes, id \in TaskIDs}

\* json.Marshal(tsk): the serialized task, of which the model keeps the id.
TaskVal(id) == [ID |-> id]

\* db.Put / db.Delete / db.Get of the key-value store; db is the committed
\* content, a function from the keys present to their values.
DbHas(d, key) == key \in DOMAIN d

DbPut(d, key, val) == [k \in (DOMAIN d) \cup {key} |-> IF k = key THEN val ELSE d[k]]

DbDelete(d, key) == [k \in (DOMAIN d) \ {key} |-> d[k]]

\* The prefixes under which a task currently has a key.
PrefixesOf(d, id) == {p \in Prefixes : DbHas(d, taskKey(p, id))}

\* The task has a key under the queue or the current prefix.
Pending(d, id) == PrefixesOf(d, id) \cap {prefixScheduled, prefixProcessing} # {}

\* A worker: its position in the storage call it executes, the call, its
\* arguments, the value read inside the transaction, and the last result.
\* cont is an observation: during a Get, whether the task had a key under
\* the queue or the current prefix at every moment since the call began.
IdleWorker == [pc |-> "idle", op |-> "none", id |-> 0, val |-> TaskVal(0),
               pfx |-> "none", step |-> 0, ret |-> "none", cont |-> FALSE]

\* A call returns: the worker keeps only the result (and, set by the last
\* probe of a Get that answers ErrNotFound, the observation cont).
Return(w, r) == [wk EXCEPT ![w] = [IdleWorker EXCEPT !.ret = r]]

StorageInit ==
    /\ db = << >>
    /\ txOwner = 0
    /\ wk = [w \in Workers |-> IdleWorker]
    /\ persisted = {}
    /\ won = {}
    /\ doubleWin = FALSE

\* s.put(prefix, tsk): taskKey rejects an id that is not a xid; then one
\* db.Put, which waits while a transaction is open and may fail.
put(prefix, w, id) ==
    /\ wk[w].pc = "idle"
    /\ IF ~IsXid(id)
       THEN /\ wk' = Return(w, "err")
            /\ UNCHANGED <<db, persisted, won>>
       ELSE /\ txOwner = 0
            /\ \/ /\ db' = DbPut(db, taskKey(prefix, id), TaskVal(id))
                  /\ wk' = Return(w, "nil")
                  /\ persisted' = persisted \cup {id}
                  /\ won' = IF prefix = prefixScheduled THEN won \ {id} ELSE won
               \/ /\ wk' = Return(w, "err")
                  /\ UNCHANGED <<db, persisted, won>>
    /\ UNCHANGED <<txOwner, doubleWin>>

PersistProcessing(w, id) == put(prefixProcessing, w, id)

PersistScheduled(w, id) == put(prefixScheduled, w, id)

\* changePrefix(dst, src, id) up to s.db.OpenTransaction(): taskKey rejects
\* an id that is not a xid; one transaction is open at a time and a later
\* caller waits, so the call takes effect when no transaction is open. The
\* source prefix is kept in pfx; the destination follows from the call.
changePrefix(w, id, src, opname) ==
    /\ wk[w].pc = "idle"
    /\ LET c == [IdleWorker EXCEPT !.op = opname, !.id = id, !.pfx = src] IN
       IF ~IsXid(id)
       THEN /\ wk' = Return(w, "err")
            /\ UNCHANGED txOwner
       ELSE /\ txOwner = 0
            /\ \/ /\ txOwner' = w
                  /\ wk' = [wk EXCEPT ![w] = [c EXCEPT !.pc = "tget"]]
               \/ /\ wk' = Return(w, "err")
                  /\ UNCHANGED txOwner
    /\ UNCHANGED <<db, persisted, won, doubleWin>>

ProcessTask(w, id) == changePrefix(w, id, prefixScheduled, "ProcessTask")

ArchiveTask(w, id) == changePrefix(w, id, prefixProcessing, "ArchiveTask")

DstOf(w) == IF wk[w].op = "ProcessTask" THEN prefixProcessing ELSE prefixComplete

\* trans.Get(oldkey): an absent key (or a read error) discards the transaction.
TransGet(w) ==
    /\ wk[w].pc = "tget"
    /\ txOwner = w
    /\ LET oldkey == taskKey(wk[w].pfx, wk[w].id) IN
       \/ /\ DbHas(db, oldkey)
          /\ wk' = [wk EXCEPT ![w].pc = "tput", ![w].val = db[oldkey]]
          /\ UNCHANGED txOwner
       \/ /\ wk' = Return(w, "err")
          /\ txOwner' = 0
    /\ UNCHANGED <<db, persisted, won, doubleWin>>

\* trans.Put(newkey, val): buffered in the transaction; on error Discard.
TransPut(w) ==
    /\ wk[w].pc = "tput"
    /\ txOwner = w
    /\ \/ /\ wk' = [wk EXCEPT ![w].pc = "tdel"]
          /\ UNCHANGED txOwner
       \/ /\ wk' = Return(w, "err")
          /\ txOwner' = 0
    /\ UNCHANGED <<db, persisted, won, doubleWin>>

\* trans.Delete(oldkey): buffered in the transaction; on error Discard.
TransDelete(w) ==
    /\ wk[w].pc = "tdel"
    /\ txOwner = w
    /\ \/ /\ wk' = [wk EXCEPT ![w].pc = "commit"]
          /\ UNCHANGED txOwner
       \/ /\ wk' = Return(w, "err")
          /\ txOwner' = 0
    /\ UNCHANGED <<db, persisted, won, doubleWin>>

\* The Gets in progress observe the store as it changes.
Observe(ws, d) ==
    [w \in Workers |->
        IF ws[w].pc = "probe"
        THEN [ws[w] EXCEPT !.cont = @ /\ Pending(d, ws[w].id)]
        ELSE ws[w]]

\* The content of the store once the transaction of w is committed.
Committed(d, w) ==
    DbDelete(DbPut(d, taskKey(DstOf(w), wk[w].id), wk[w].val),
             taskKey(wk[w].pfx, wk[w].id))

\* trans.Commit(): the buffered put and delete become visible together.
\* On an error nothing is written and changePrefix returns the error
\* without a Discard: the store has closed the transaction (it is closed
\* itself), or the transaction stays open, as after a failed flush.
TransCommit(w) ==
    /\ wk[w].pc = "commit"
    /\ txOwner = w
    /\ \/ /\ db' = Committed(db, w)
          /\ txOwner' = 0
          /\ wk' = Observe(Return(w, "nil"), db')
          /\ won' = IF wk[w].op = "ProcessTask" THEN won \cup {wk[w].id} ELSE won
          /\ doubleWin' = (doubleWin \/ (wk[w].op = "ProcessTask" /\ wk[w].id \in won))
       \/ /\ wk' = Return(w, "err")
          /\ txOwner' \in {0, w}
          /\ UNCHANGED <<db, won, doubleWin>>
    /\ UNCHANGED persisted

\* The order in which Get and Delete probe the prefixes.
ProbeOrder == <<prefixComplete, prefixProcessing, prefixScheduled>>

\* s.get(prefix, id) as the k-th probe of Get or Delete by worker w, whose
\* record during the call is c: one read of the committed store. A found
\* task ends Get and sends Delete to s.delete; ErrNotFound moves on to the
\* next prefix, and after the last prefix the call fails; any other error
\* (an id that is not a xid, a read error) ends the call.
ProbeStep(w, c, k) ==
    LET p == ProbeOrder[k]
        key == taskKey(p, c.id)
        ws == [wk EXCEPT ![w] = c] IN
    IF ~IsXid(c.id)
    THEN wk' = Return(w, "err")
    ELSE \/ /\ DbHas(db, key)
            /\ wk' = IF c.op = "Get"
                     THEN Return(w, "nil")
                     ELSE [ws EXCEPT ![w].pc = "remove", ![w].pfx = p]
         \/ /\ ~DbHas(db, key)
            /\ wk' = IF k = Len(ProbeOrder)
                     THEN [ws EXCEPT ![w] =
                             [IdleWorker EXCEPT
                                !.ret = IF c.op = "Get" THEN "notfound" ELSE "err",
                                !.cont = (c.op = "Get" /\ c.cont)]]
                     ELSE [ws EXCEPT ![w].pc = "probe", ![w].step = k + 1]
         \/ wk' = Return(w, "err")

\* Storage.Get(id) and Storage.Delete(id): the call and its first s.get.
Lookup(w, id, opname) ==
    /\ wk[w].pc = "idle"
    /\ ProbeStep(w, [IdleWorker EXCEPT !.op = opname, !.id = id,
                                       !.cont = (opname = "Get" /\ Pending(db, id))], 1)
    /\ UNCHANGED <<db, txOwner, persisted, won, doubleWin>>

Get(w, id) == Lookup(w, id, "Get")

Delete(w, id) == Lookup(w, id, "Delete")

\* The second and third s.get of a Get or Delete in progress.
Probe(w) ==
    /\ wk[w].pc = "probe"
    /\ ProbeStep(w, wk[w], wk[w].step)
    /\ UNCHANGED <<db, txOwner, persisted, won, doubleWin>>

\* s.delete(prefix, tsk): one db.Delete of the key found by the probe.
Remove(w) ==
    /\ wk[w].pc = "remove"
    /\ txOwner = 0
    /\ \/ /\ db' = DbDelete(db, taskKey(wk[w].pfx, wk[w].id))
          /\ wk' = Observe(Return(w, "nil"), db')
          /\ persisted' = persisted \ {wk[w].id}
       \/ /\ wk' = Return(w, "err")
          /\ UNCHANGED <<db, persisted>>
    /\ UNCHANGED <<txOwner, won, doubleWin>>

\* The daemon stops and starts again: every call in progress is lost, an
\* open transaction is never committed, the store keeps what was committed.
Restart ==
    /\ \E w \in Workers : wk[w].pc # "idle"
    /\ wk' = [w \in Workers |-> IdleWorker]
    /\ txOwner' = 0
    /\ UNCHANGED <<db, persisted, won, doubleWin>>

\* The variables of the other subsystems.
notStorage == <<queueVars, syncVars, subtreeVars, extVars, svcVars,
      lateVars>>

StorageNext ==
    \/ \E w \in Workers, id \in AnyIDs : PersistScheduled(w, id) /\ UNCHANGED notStorage
    \/ \E w \in Workers, id \in AnyIDs : PersistProcessing(w, id) /\ UNCHANGED notStorage
    \/ \E w \in Workers, id \in AnyIDs : ProcessTask(w, id) /\ UNCHANGED notStorage
    \/ \E w \in Workers, id \in AnyIDs : ArchiveTask(w, id) /\ UNCHANGED notStorage
    \/ \E w \in Workers, id \in AnyIDs : Get(w, id) /\ UNCHANGED notStorage
    \/ \E w \in Workers, id \in AnyIDs : Delete(w, id) /\ UNCHANGED notStorage
    \/ \E w \in Workers : TransGet(w) /\ UNCHANGED notStorage
    \/ \E w \in Workers : TransPut(w) /\ UNCHANGED notStorage
    \/ \E w \in Workers : TransDelete(w) /\ UNCHANGED notStorage
    \/ \E w \in Workers : TransCommit(w) /\ UNCHANGED notStorage
    \/ \E w \in Workers : Probe(w) /\ UNCHANGED notStorage
    \/ \E w \in Workers : Remove(w) /\ UNCHANGED notStorage
    \/ Restart /\ UNCHANGED notStorage

\* ========================================================================
\* Task queue (taskQueue under container/heap, src/pkg/task/task_test.go)
\* ========================================================================

Priorities == 0..MaxPriority
Times == 1..MaxCreated

\* A queued task, as far as the queue reads it.
QTask(p, c) == [Priority |-> p, Created |-> c]

QTasks == {QTask(p, c) : p \in Priorities, c \in Times}

\* The element at index i, counted from 0 as the code does.
At(q, i) == q[i + 1]

\* taskQueue.Less(i, j): the higher priority first and, at equal priority,
\* the older task first.
LessMutPriorityAscending(q, i, j) ==
    IF At(q, i).Priority = At(q, j).Priority
    THEN At(q, i).Created < At(q, j).Created
    ELSE At(q, i).Priority < At(q, j).Priority

Less(q, i, j) ==
    IF At(q, i).Priority = At(q, j).Priority
    THEN At(q, i).Created < At(q, j).Created
    ELSE At(q, i).Priority > At(q, j).Priority

\* taskQueue.Swap(i, j)
Swap(q, i, j) == [q EXCEPT ![i + 1] = q[j + 1], ![j + 1] = q[i + 1]]

\* heap.up(h, j): sift the element at j towards the root.
RECURSIVE up(_, _)
up(q, j) ==
    LET i == (j - 1) \div 2 IN
    IF j = 0 \/ i = j \/ ~Less(q, j, i)
    THEN q
    ELSE up(Swap(q, i, j), i)

\* heap.down(h, i, n): sift the element at i towards the leaves of h[0..n).
RECURSIVE down(_, _, _)
down(q, i, n) ==
    LET j1 == 2 * i + 1
        j2 == j1 + 1
        j == IF j2 < n /\ Less(q, j2, j1) THEN j2 ELSE j1 IN
    IF j1 >= n
    THEN q
    ELSE IF ~Less(q, j, i)
         THEN q
         ELSE down(Swap(q, i, j), j, n)

\* heap.Push(h, x): append, then up.
heapPush(q, x) == up(Append(q, x), Len(q))

\* heap.Pop(h): swap root and last, down over the rest, remove the last.
heapPopRest(q) ==
    LET n == Len(q) - 1 IN SubSeq(down(Swap(q, 0, n), 0, n), 1, n)

heapPopped(q) == q[1]

\* The number of occurrences of x in the sequence q.
Count(q, x) == Cardinality({i \in DOMAIN q : q[i] = x})

QueueInit ==
    /\ tq = << >>
    /\ popped = << >>
    /\ inq = [x \in QTasks |-> 0]

\* A task is pushed. popped, the run of pops since the last push, starts
\* again; inq is the content of the queue at the last push.
QueuePush(p, c) ==
    /\ Len(tq) < MaxQueue
    /\ tq' = heapPush(tq, QTask(p, c))
    /\ popped' = << >>
    /\ inq' = [x \in QTasks |-> Count(tq', x)]

QueuePop ==
    /\ Len(tq) > 0
    /\ popped' = Append(popped, heapPopped(tq))
    /\ tq' = heapPopRest(tq)
    /\ UNCHANGED inq

\* The variables of the other subsystems.
notQueue == <<storageVars, syncVars, subtreeVars, extVars, svcVars,
      lateVars>>

QueueNext ==
    \/ \E p \in Priorities, c \in Times : QueuePush(p, c) /\ UNCHANGED notQueue
    \/ QueuePop /\ UNCHANGED notQueue

\* ========================================================================
\* Coordination service: SignalEntry and Barrier
\* (src/pkg/sync/service_state.go; the service loop is modelled from the
\* specification)
\* ========================================================================

Instances == 1..NumInst
StateKeys == 1..NumStates
Targets == 0..MaxTarget

\* An instance: its position in the call it executes, the call and its
\* arguments, the state of the context it passed, the content of the
\* barrier's doneCh, and the last result. early is an observation: the
\* context was cancelled at a moment when the counter was below the target.
IdleInst == [pc |-> "idle", op |-> "none", key |-> 0, target |-> 0, seq |-> 0,
             cancelled |-> FALSE, early |-> FALSE, done |-> "empty", ret |-> "none"]

SyncInit ==
    /\ counter = [k \in StateKeys |-> 0]
    /\ inst = [i \in Instances |-> IdleInst]
    /\ active = {}
    /\ got = [k \in StateKeys |-> << >>]

\* s.rclient.Incr(state): the store adds one to the key, atomically, and
\* answers the new value.
IncrMutAnswersOld(c, k) == c[k]

IncrResult(c, k) == c[k] + 1

Incr(c, k) == [c EXCEPT ![k] = IncrResult(c, k)]

\* SignalEntry(ctx, state) up to the answer of Incr: on an error of the
\* store the call returns (0, err) and the key is untouched.
SignalEntry(i, k) ==
    /\ inst[i].pc = "idle"
    /\ \/ /\ counter[k] < MaxSignals
          /\ counter' = Incr(counter, k)
          /\ inst' = [inst EXCEPT ![i] = [IdleInst EXCEPT !.pc = "signalled",
                         !.op = "SignalEntry", !.key = k, !.seq = IncrResult(counter, k)]]
       \/ /\ inst' = [inst EXCEPT ![i] = [IdleInst EXCEPT !.op = "SignalEntry",
                         !.key = k, !.ret = "err"]]
          /\ UNCHANGED counter
    /\ UNCHANGED <<active, got>>

\* SignalEntry returns seq to its caller; got lists the values returned
\* for the key, in the order of the returns.
SignalReturn(i) ==
    /\ inst[i].pc = "signalled"
    /\ got' = [got EXCEPT ![inst[i].key] = Append(@, inst[i].seq)]
    /\ inst' = [inst EXCEPT ![i].pc = "idle", ![i].ret = "nil"]
    /\ UNCHANGED <<counter, active>>

\* Barrier(ctx, state, target) up to the send on s.barrierCh: a target of
\* zero is satisfied at once; otherwise the barrier is built and offered to
\* the service loop. c tells whether ctx is already cancelled.
BarrierMutNoZeroCheck(i, k, t, c) ==
    /\ inst[i].pc = "idle"
    /\ inst' = [inst EXCEPT ![i] = [IdleInst EXCEPT !.pc = "send", !.op = "Barrier",
                   !.key = k, !.target = t, !.cancelled = c,
                   !.early = (c /\ counter[k] < t)]]
    /\ UNCHANGED <<counter, active, got>>

Barrier(i, k, t, c) ==
    /\ inst[i].pc = "idle"
    /\ LET b == [IdleInst EXCEPT !.op = "Barrier", !.key = k, !.target = t,
                                 !.cancelled = c] IN
       IF t = 0
       THEN inst' = [inst EXCEPT ![i] = [b EXCEPT !.ret = "nil"]]
       ELSE inst' = [inst EXCEPT ![i] = [b EXCEPT !.pc = "send",
                                                  !.early = (c /\ counter[k] < t)]]
    /\ UNCHANGED <<counter, active, got>>

\* The caller cancels the context of its barrier.
Cancel(i) ==
    /\ inst[i].pc \in {"send", "result", "done"}
    /\ ~inst[i].cancelled
    /\ inst' = [inst EXCEPT ![i].cancelled = TRUE,
                            ![i].early = (inst[i].done = "empty"
                                          /\ counter[inst[i].key] < inst[i].target)]
    /\ UNCHANGED <<counter, active, got>>

\* s.barrierCh <- b, received by the service loop.
BarrierSend(i) ==
    /\ inst[i].pc = "send"
    /\ inst' = [inst EXCEPT ![i].pc = "result"]
    /\ UNCHANGED <<counter, active, got>>

\* err = <-b.resultCh: the service loop registers the barrier and answers
\* nil.
BarrierResult(i) ==
    /\ inst[i].pc = "result"
    /\ active' = active \cup {i}
    /\ inst' = [inst EXCEPT ![i].pc = "done"]
    /\ UNCHANGED <<counter, got>>

\* What the service loop decides for a registered barrier: the error of a
\* cancelled context, nil once the counter has reached the target, and
\* otherwise nothing yet.
Verdict(b, c) ==
    IF b.cancelled THEN "err"
    ELSE IF c[b.key] >= b.target THEN "nil" ELSE "empty"

\* The service loop checks a registered barrier and, when it is decided,
\* writes the outcome to b.doneCh and forgets the barrier.
ServiceCheck(i) ==
    /\ i \in active
    /\ Verdict(inst[i], counter) # "empty"
    /\ inst' = [inst EXCEPT ![i].done = Verdict(inst[i], counter)]
    /\ active' = active \ {i}
    /\ UNCHANGED <<counter, got>>

\* err = <-b.doneCh; return err
BarrierDoneMutWrongChannel(i) ==
    /\ inst[i].pc = "done"
    /\ FALSE
    /\ UNCHANGED <<counter, inst, active, got>>

BarrierDoneMutDropsError(i) ==
    /\ inst[i].pc = "done"
    /\ inst[i].done # "empty"
    /\ inst' = [inst EXCEPT ![i].pc = "idle", ![i].ret = "nil"]
    /\ UNCHANGED <<counter, active, got>>

BarrierDoneMutSkipsDoneCh(i) ==
    /\ inst[i].pc = "done"
    /\ inst' = [inst EXCEPT ![i].pc = "idle", ![i].ret = "nil"]
    /\ UNCHANGED <<counter, active, got>>

BarrierDone(i) ==
    /\ inst[i].pc = "done"
    /\ inst[i].done # "empty"
    /\ inst' = [inst EXCEPT ![i].pc = "idle", ![i].ret = inst[i].done]
    /\ UNCHANGED <<counter, active, got>>

\* The variables of the other subsystems.
notSync == <<storageVars, queueVars, subtreeVars, extVars, svcVars,
      lateVars>>

SyncNext ==
    \/ \E i \in Instances, k \in StateKeys : SignalEntry(i, k) /\ UNCHANGED notSync
    \/ \E i \in Instances : SignalReturn(i) /\ UNCHANGED notSync
    \/ \E i \in Instances, k \in StateKeys, t \in Targets, c \in BOOLEAN :
          Barrier(i, k, t, c) /\ UNCHANGED notSync
    \/ \E i \in Instances : Cancel(i) /\ UNCHANGED notSync
    \/ \E i \in Instances : BarrierSend(i) /\ UNCHANGED notSync
    \/ \E i \in Instances : BarrierResult(i) /\ UNCHANGED notSync
    \/ \E i \in Instances : ServiceCheck(i) /\ UNCHANGED notSync
    \/ \E i \in Instances : BarrierDone(i) /\ UNCHANGED notSync

\* The goroutines of the service loop and of the Barrier calls keep
\* running; callers are free to signal, to cancel, or to do nothing.
SyncFairness ==
    \A i \in Instances :
        /\ WF_vars(BarrierSend(i) /\ UNCHANGED notSync)
        /\ WF_vars(BarrierResult(i) /\ UNCHANGED notSync)
        /\ WF_vars(ServiceCheck(i) /\ UNCHANGED notSync)
        /\ WF_vars(BarrierDone(i) /\ UNCHANGED notSync)

\* ========================================================================
\* Coordination service: publish and subscribe on one subtree of one run
\* (modelled from the specification; src/sdk/sync/redis_test.go uses it)
\* ========================================================================

Subscribers == 1..NumSubs
Writers == 1..NumWriters
Values == 1..NumValues

\* An entry as a subscriber sees it: its position in the stream and its
\* payload.
Entry(n, v) == [id |-> n, v |-> v]

\* A subscription: not made yet, open, or closed by its context; the id
\* of the last entry read from the stream; the channel handed to Subscribe;
\* what the subscriber has received from the channel. at is an
\* observation: the length of the stream when Subscribe was called.
\* chClosed: the reader has closed the channel. cat is an observation: the
\* length of the stream when the context was cancelled.
NoSub == [state |-> "none", cursor |-> 0, ch |-> << >>, recv |-> << >>, at |-> 0,
          chClosed |-> FALSE, cat |-> 0]

SubtreeInit ==
    /\ stream = << >>
    /\ wret = << >>
    /\ subs = [u \in Subscribers |-> NoSub]

\* The sequence number a publish answers: the length of the stream with
\* the new entry, so the first publish answers 1.
WriteSeqMutZeroBased(st) == Len(st)

WriteSeq(st) == Len(st) + 1

\* Writer.Write / publish(subtree, value): appends one entry to the stream
\* and returns its sequence number; never waits for a subscriber. wret
\* lists, in publish order, the writer and the number returned.
Write(w, v) ==
    /\ Len(stream) < MaxStream
    /\ stream' = Append(stream, v)
    /\ wret' = Append(wret, [w |-> w, seq |-> WriteSeq(stream)])
    /\ UNCHANGED subs

\* Where a new subscription starts reading: at the start of the stream.
StartCursorMutOnlyNew(st) == Len(st)

StartCursor(st) == 0

\* Watcher.Subscribe / subscribe(subtree, ctx): opens a subscription that
\* reads the stream from its start.
Subscribe(u) ==
    /\ subs[u].state = "none"
    /\ subs' = [subs EXCEPT ![u] = [NoSub EXCEPT !.state = "open",
                                      !.cursor = StartCursor(stream),
                                      !.at = Len(stream)]]
    /\ UNCHANGED <<stream, wret>>

\* The cursor after the entry n was read and sent.
AdvanceMutStays(n) == n - 1

Advance(n) == n

\* The subscription's reader: the blocking read returns the entry after
\* the cursor, which is sent to the subscriber's channel (the send waits
\* while the channel is full), and the cursor moves to it.
SubDeliver(u) ==
    /\ subs[u].state = "open"
    /\ subs[u].cursor < Len(stream)
    /\ Len(subs[u].ch) < ChanCap
    /\ LET n == subs[u].cursor + 1 IN
       subs' = [subs EXCEPT ![u].ch = Append(@, Entry(n, stream[n])),
                            ![u].cursor = Advance(n)]
    /\ UNCHANGED <<stream, wret>>

\* The subscriber receives from its channel.
SubReceive(u) ==
    /\ subs[u].ch # << >>
    /\ Len(subs[u].recv) < MaxStream
    /\ subs' = [subs EXCEPT ![u].recv = Append(@, Head(subs[u].ch)),
                            ![u].ch = Tail(@)]
    /\ UNCHANGED <<stream, wret>>

\* The context of the subscription is cancelled: the reader stops.
SubCancelMutWholeWatcher(u) ==
    /\ subs[u].state = "open"
    /\ subs' = [x \in DOMAIN subs |->
                 IF subs[x].state = "open"
                 THEN [subs[x] EXCEPT !.state = "closed", !.cat = Len(stream)]
                 ELSE subs[x]]
    /\ UNCHANGED <<stream, wret>>

SubCancel(u) ==
    /\ subs[u].state = "open"
    /\ subs' = [subs EXCEPT ![u].state = "closed", ![u].cat = Len(stream)]
    /\ UNCHANGED <<stream, wret>>

\* The reader of a cancelled subscription returns and closes the channel;
\* what the channel still holds stays receivable.
SubClose(u) ==
    /\ subs[u].state = "closed"
    /\ ~subs[u].chClosed
    /\ subs' = [subs EXCEPT ![u].chClosed = TRUE]
    /\ UNCHANGED <<stream, wret>>

\* The variables of the other subsystems.
notSubtree == <<storageVars, queueVars, syncVars, extVars, svcVars,
      lateVars>>

SubtreeNext ==
    \/ \E w \in Writers, v \in Values : Write(w, v) /\ UNCHANGED notSubtree
    \/ \E u \in Subscribers : Subscribe(u) /\ UNCHANGED notSubtree
    \/ \E u \in Subscribers : SubDeliver(u) /\ UNCHANGED notSubtree
    \/ \E u \in Subscribers : SubReceive(u) /\ UNCHANGED notSubtree
    \/ \E u \in Subscribers : SubCancel(u) /\ UNCHANGED notSubtree
    \/ \E u \in Subscribers : SubClose(u) /\ UNCHANGED notSubtree

\* The reader goroutine of an open subscription keeps reading, and the
\* subscriber keeps receiving from its channel.
SubtreeFairness ==
    \A u \in Subscribers :
        /\ WF_vars(SubDeliver(u) /\ UNCHANGED notSubtree)
        /\ WF_vars(SubReceive(u) /\ UNCHANGED notSubtree)
        /\ WF_vars(SubClose(u) /\ UNCHANGED notSubtree)

\* TestCloseSubscription's setting with a second subscription: one watcher
\* with several subscriptions of one subtree, each under a context of its
\* own, and one writer.
NumWatched == 2

Watched == 1..NumWatched

CloseInit ==
    /\ StorageInit /\ QueueInit /\ SyncInit
    /\ stream = << >>
    /\ wret = << >>
    /\ subs = [u \in Watched |-> NoSub]

\* The writer publishes one payload again and again: the entries differ
\* by their position in the stream.
CloseNext ==
    \/ Write(1, 1) /\ UNCHANGED notSubtree
    \/ \E u \in Watched : Subscribe(u) /\ UNCHANGED notSubtree
    \/ \E u \in Watched : SubDeliver(u) /\ UNCHANGED notSubtree
    \/ \E u \in Watched : SubReceive(u) /\ UNCHANGED notSubtree
    \/ \E u \in Watched : SubCancel(u) /\ UNCHANGED notSubtree
    \/ \E u \in Watched : SubClose(u) /\ UNCHANGED notSubtree

CloseFairness ==
    \A u \in Watched :
        /\ WF_vars(SubDeliver(u) /\ UNCHANGED notSubtree)
        /\ WF_vars(SubReceive(u) /\ UNCHANGED notSubtree)
        /\ WF_vars(SubClose(u) /\ UNCHANGED notSubtree)

\* ========================================================================
\* Composition validation (src/unnamed/part_004)
\* ========================================================================

\* uint is modelled with UintBits bits: sums and conversions wrap at
\* 2^UintBits as Go's uint wraps at 2^64.
UintBits == 4

UintMod == 2 ^ UintBits

ToUint(x) == x % UintMod

MaxGroups == 2

GroupIDs == {"a", "b"}

\* "" is the unset builder.
Builders == {"", "docker:go"}

\* Instances.Count; the largest is half of the range of uint.
Counts == {0, 3, 5, 2 ^ (UintBits - 1)}

\* Instances.Percentage, a float64, in hundredths: -0.5, 0, 0.5.
Percentages == {-50, 0, 50}

\* Global.TotalInstances as supplied.
Totals == {0, 10}

\* The outcome of the struct tags, which are not part of this file: "ok",
\* "runField" (a violation in Global.Case, Global.TotalInstances,
\* Global.Runner or Runs, which ValidateForBuild leaves out), "bad".
TagOutcomes == {"ok", "runField", "bad"}

GroupRecs ==
    [ID : GroupIDs, Builder : Builders, Count : Counts,
     Percentage : Percentages, calculatedInstanceCnt : {0}]

GroupSeqs == UNION {[1..n -> GroupRecs] : n \in 0..MaxGroups}

Compositions ==
    [tags : TagOutcomes, runsValid : BOOLEAN, Builder : Builders,
     TotalInstances : Totals, Groups : GroupSeqs]

\* The composition of the specifications that validate nothing.
NoComposition ==
    [tags |-> "ok", runsValid |-> TRUE, Builder |-> "",
     TotalInstances |-> 0, Groups |-> << >>]

ComposeIdle ==
    /\ comp = NoComposition
    /\ given = NoComposition
    /\ cop = "none"
    /\ cret = "none"
    /\ iv = << >>

ComposeInit ==
    /\ comp \in Compositions
    /\ given = comp
    /\ cop = "none"
    /\ cret = "none"
    /\ iv = << >>

\* ValidateInstances: no error is reported when one of count and
\* percentage is zero and float64(count) + percentage is above zero.
ValidateInstancesMutAllowsBoth(g) ==
    g.Count * 100 + g.Percentage > 0

ValidateInstances(g) ==
    /\ (g.Count = 0 \/ g.Percentage = 0)
    /\ g.Count * 100 + g.Percentage > 0

\* compositionValidator.Struct / StructExcept: the struct tags and
\* ValidateInstances on the Instances of every group.
StructValid(c, forBuild) ==
    /\ c.tags = "ok" \/ (forBuild /\ c.tags = "runField")
    /\ \A i \in DOMAIN c.Groups : ValidateInstances(c.Groups[i])

\* Groups.Validate: nil when the group ids are unique and every group has
\* a builder of its own or there is a global one.
GroupsValidateMutNoBuilderCheck(c) ==
    \A i, j \in DOMAIN c.Groups : i < j => c.Groups[i].ID # c.Groups[j].ID

GroupsValidate(c) ==
    /\ \A i, j \in DOMAIN c.Groups : i < j => c.Groups[i].ID # c.Groups[j].ID
    /\ \A i \in DOMAIN c.Groups :
          ~(c.Groups[i].Builder = "" /\ c.Builder = "")

\* Runs.Validate reads the composition and changes nothing; the model keeps
\* its verdict only.
RunsValidate(c) == c.runsValid

\* math.Round of percentage * total, the percentage in hundredths: half
\* away from zero.
Round(pct, total) ==
    IF pct >= 0 THEN (2 * pct * total + 100) \div 200
    ELSE 0 - ((2 * (0 - pct) * total + 100) \div 200)

\* part_004:108: a percentage needs the total.
NeedsTotalMutNever(g, totalInstances) == FALSE

NeedsTotal(g, totalInstances) == g.Percentage > 0 /\ totalInstances = 0

\* part_004:113-115: the count when it is not zero, else the rounded share.
CalculatedCnt(g, totalInstances) ==
    IF g.Count # 0 THEN g.Count
    ELSE ToUint(Round(g.Percentage, totalInstances))

\* The loop of part_004:106-117 from group i on: it stops with an error at
\* the first group that needs a total, having set the calculated count of
\* the groups before it.
RECURSIVE CountLoop(_, _, _, _)
CountLoop(gs, i, totalInstances, computedTotal) ==
    IF i > Len(gs) THEN [err |-> FALSE, gs |-> gs, computedTotal |-> computedTotal]
    ELSE IF NeedsTotal(gs[i], totalInstances)
    THEN [err |-> TRUE, gs |-> gs, computedTotal |-> computedTotal]
    ELSE LET n == CalculatedCnt(gs[i], totalInstances) IN
         CountLoop([gs EXCEPT ![i].calculatedInstanceCnt = n], i + 1,
                   totalInstances, ToUint(computedTotal + n))

\* The instance validation's verdict on every group, as the validator
\* library runs it on each of them.
InstanceVerdicts(c) ==
    [i \in DOMAIN c.Groups |-> ValidateInstances(c.Groups[i])]

ComposeReturn(op, c, err) ==
    /\ comp' = c
    /\ cop' = op
    /\ cret' = IF err THEN "err" ELSE "nil"
    /\ iv' = InstanceVerdicts(comp)
    /\ UNCHANGED given

\* Composition.ValidateForBuild
ValidateForBuild ==
    /\ cop = "none"
    /\ IF ~StructValid(comp, TRUE) THEN ComposeReturn("build", comp, TRUE)
       ELSE ComposeReturn("build", comp, ~GroupsValidate(comp))

\* Composition.ValidateForRun
ValidateForRun ==
    /\ cop = "none"
    /\ IF ~StructValid(comp, FALSE) THEN ComposeReturn("run", comp, TRUE)
       ELSE IF ~GroupsValidate(comp) THEN ComposeReturn("run", comp, TRUE)
       ELSE IF ~RunsValidate(comp) THEN ComposeReturn("run", comp, TRUE)
       ELSE LET totalInstances == comp.TotalInstances
                l == CountLoop(comp.Groups, 1, totalInstances, 0)
                counted == [comp EXCEPT !.Groups = l.gs]
            IN  IF l.err THEN ComposeReturn("run", counted, TRUE)
                ELSE IF totalInstances > 0 /\ totalInstances # l.computedTotal
                THEN ComposeReturn("run", counted, TRUE)
                ELSE LET c == [counted EXCEPT !.TotalInstances = l.computedTotal]
                     IN  ComposeReturn("run", c, ~GroupsValidate(c))

notCompose == <<storageVars, queueVars, syncVars, subtreeVars, k8sVars, execVars, dockerVars,
      svcVars,
      lateVars>>

ComposeNext ==
    \/ ValidateForBuild /\ UNCHANGED notCompose
    \/ ValidateForRun /\ UNCHANGED notCompose

\* ========================================================================
\* Cluster runner (src/unnamed/part_007)
\* ========================================================================

\* input.TotalInstances: the pods of the run, one per instance.
NumPods == 2

Pods == 1..NumPods

\* workers of initPool: the clients of the pool (20 in the source, scaled)
PoolWorkers == 2

\* The rounds of the monitor that fit in the 100 minutes of its watchdog
\* (one round sleeps 2 seconds; scaled).
WatchdogRounds == 2

\* sidecarCPUs and utilisation, in hundredths
sidecarCPUs == 20
utilisation == 85

\* CPU quantities are in hundredths of a CPU; 0 stands for the empty
\* g.Resources.CPU.
GroupCPUs == {0, 150}

\* input.Groups: the groups of NumPods instances in all.
RunGroups ==
    {<<[Instances |-> NumPods, CPU |-> c]>> : c \in GroupCPUs}
      \cup {<<[Instances |-> 1, CPU |-> c], [Instances |-> NumPods - 1, CPU |-> d]>> :
              c \in GroupCPUs, d \in GroupCPUs}

\* The cluster and the request as Run finds them: the plan-labelled nodes,
\* the allocatable CPUs of the first, cfg.PodResourceCPU and input.Groups.
RunInputs ==
    [nodes : 0..2, nodeCPUs : 1..2, fallbackCPU : {50}, groups : RunGroups]

\* A pod of the run: its phase ("none" before it is created) and whether
\* a delete has been issued for it.
NoPod == [phase |-> "none", deleted |-> FALSE]

NoMonitor ==
    [pc |-> "acquire", listed |-> {}, counters |-> << >>, ret |-> "none",
     rounds |-> 0]

\* The run has not started: no pod, no monitor.
K8sIdle ==
    /\ pods = [p \in Pods |-> NoPod]
    /\ created = [p \in Pods |-> "todo"]
    /\ mon = NoMonitor
    /\ kctx = FALSE
    /\ krun = [pc |-> "idle", ret |-> "none", next |-> 1, kept |-> 0]
    /\ keepService = FALSE
    /\ pool = PoolWorkers
    /\ kin = [nodes |-> 1, nodeCPUs |-> 1, fallbackCPU |-> 50,
              groups |-> <<[Instances |-> NumPods, CPU |-> 0]>>]

\* ClusterK8sRunner.Run is called, with either value of cfg.KeepService.
K8sInit ==
    /\ pods = [p \in Pods |-> NoPod]
    /\ created = [p \in Pods |-> "todo"]
    /\ mon = NoMonitor
    /\ kctx = FALSE
    /\ krun = [pc |-> "start", ret |-> "none", next |-> 1, kept |-> 0]
    /\ keepService \in BOOLEAN
    /\ pool = PoolWorkers
    /\ kin \in RunInputs

\* c.pool.Acquire(): receives a client from availableC
MayAcquire(n) == n > 0

\* ClusterK8sRunner.Healthcheck acquires a client of the pool and returns
\* without releasing it; kept counts the clients so kept.
K8sHealthcheck ==
    /\ krun.pc # "idle"
    /\ MayAcquire(pool)
    /\ pool' = pool - 1
    /\ krun' = [krun EXCEPT !.kept = @ + 1]
    /\ UNCHANGED <<pods, created, mon, kctx, keepService, kin>>

RECURSIVE neededCPUs(_, _)
neededCPUs(groups, defaultPodCPU) ==
    IF groups = << >> THEN 0
    ELSE LET g == Head(groups)
             podCPU == IF g.CPU # 0 THEN g.CPU ELSE defaultPodCPU
         IN  podCPU * g.Instances + neededCPUs(Tail(groups), defaultPodCPU)

availableCPUs(in) == in.nodes * in.nodeCPUs * 100 - in.nodes * sidecarCPUs

\* checkClusterResources: "panic" when no node carries the label
\* (res.Items[0]), else whether the groups fit.
checkClusterResources(in) ==
    IF in.nodes = 0 THEN "panic"
    ELSE IF availableCPUs(in) * utilisation > neededCPUs(in.groups, in.fallbackCPU) * 100
         THEN "enough"
         ELSE "notEnough"

\* The pods the deferred functions of Run issue a delete for.
DeferredDeletesMutOnlyCreated(keep, scheduled) ==
    {p \in scheduled : created[p] = "ok"}

DeferredDeletes(keep, scheduled) == IF keep THEN {} ELSE scheduled

\* Run leaves its body with r; its deferred functions are still to run.
RunReturn(r) == krun' = [krun EXCEPT !.pc = "deferred", !.ret = r]

\* nextK8sSubnet fails, or the list of the nodes in checkClusterResources
\* fails: Run returns the error before it deploys anything.
RunPrecheckFails ==
    /\ krun.pc = "start"
    /\ krun' = [krun EXCEPT !.pc = "returned", !.ret = "err"]
    /\ UNCHANGED <<pods, created, mon, kctx, keepService, pool, kin>>

\* enoughResources, err := c.checkClusterResources(...), which holds a
\* client of the pool for the time of the call.
RunCheckResources ==
    /\ krun.pc = "start"
    /\ MayAcquire(pool)
    /\ LET res == checkClusterResources(kin)
       IN  krun' = IF res = "panic" THEN [krun EXCEPT !.pc = "panicked"]
                   ELSE IF res = "enough" THEN [krun EXCEPT !.pc = "loop"]
                   ELSE [krun EXCEPT !.pc = "returned", !.ret = "err"]
    /\ UNCHANGED <<pods, created, mon, kctx, keepService, pool, kin>>

\* Run has started the monitor.
Deployed == krun.pc \in {"loop", "wait"}

\* One round of the loops over the groups and their instances: the delete
\* of the pod is deferred and the goroutine creating it is started.
RunSchedule ==
    /\ krun.pc = "loop"
    /\ krun' = IF krun.next = NumPods
               THEN [krun EXCEPT !.pc = "wait", !.next = @ + 1]
               ELSE [krun EXCEPT !.next = @ + 1]
    /\ UNCHANGED <<pods, created, mon, kctx, keepService, pool, kin>>

\* The pods whose delete is deferred
Scheduled == 1..(krun.next - 1)

\* createTestplanPod: the pod is created, Pending, or the call fails.
createTestplanPod(p) ==
    /\ Deployed
    /\ p \in Scheduled
    /\ created[p] = "todo"
    /\ MayAcquire(pool)
    /\ \/ /\ created' = [created EXCEPT ![p] = "ok"]
          /\ pods' = [pods EXCEPT ![p].phase = "Pending"]
       \/ /\ created' = [created EXCEPT ![p] = "err"]
          /\ UNCHANGED pods
    /\ UNCHANGED <<mon, kctx, krun, keepService, pool, kin>>

\* The cluster moves a pod through its phases; Succeeded and Failed are
\* final.
PodStep(p) ==
    /\ ~pods[p].deleted
    /\ \/ /\ pods[p].phase = "Pending"
          /\ \E ph \in {"Running", "Failed"} : pods' = [pods EXCEPT ![p].phase = ph]
       \/ /\ pods[p].phase = "Running"
          /\ \E ph \in {"Succeeded", "Failed"} : pods' = [pods EXCEPT ![p].phase = ph]
    /\ UNCHANGED <<created, mon, kctx, krun, keepService, pool, kin>>

\* The request context is cancelled.
CtxCancel ==
    /\ Deployed
    /\ ~kctx
    /\ kctx' = TRUE
    /\ UNCHANGED <<pods, created, mon, krun, keepService, pool, kin>>

\* monitorTestplanRunState: client := c.pool.Acquire()
MonitorAcquire ==
    /\ Deployed /\ mon.pc = "acquire"
    /\ MayAcquire(pool)
    /\ pool' = pool - 1
    /\ mon' = [mon EXCEPT !.pc = "poll"]
    /\ UNCHANGED <<pods, created, kctx, krun, keepService, kin>>

\* The monitor returns r: defer c.pool.Release(client)
MonitorReturn(r) ==
    /\ mon' = [mon EXCEPT !.pc = "done", !.ret = r, !.listed = {}, !.counters = << >>]
    /\ pool' = pool + 1

\* monitorTestplanRunState, head of the loop: the context is done.
MonitorCtxDone ==
    /\ Deployed /\ mon.pc = "poll" /\ mon.listed = {}
    /\ kctx
    /\ MonitorReturn("err")
    /\ UNCHANGED <<pods, created, kctx, krun, keepService, kin>>

\* monitorTestplanRunState, head of the loop: the 100 minutes are over,
\* at the latest after WatchdogRounds rounds.
MonitorTimeout ==
    /\ Deployed /\ mon.pc = "poll" /\ mon.listed = {}
    /\ ~kctx
    /\ MonitorReturn("err")
    /\ UNCHANGED <<pods, created, kctx, krun, keepService, kin>>

\* The phases the monitor's verdict reads (it lists Pending, Running and
\* Unknown as well, for the log and the network stage only).
Listed == {"Succeeded", "Failed"}

\* countPodsByState: the number of pods in the phase at the time of the
\* call, or -1 when the list call fails. The lists of one round run in
\* goroutines of their own, in any order.
countPodsByState(state) ==
    /\ Deployed /\ mon.pc = "poll"
    /\ mon.listed # {} \/ (~kctx /\ mon.rounds < WatchdogRounds)
    /\ state \notin mon.listed
    /\ \E n \in {Cardinality({p \in Pods : pods[p].phase = state}), -1} :
          mon' = [mon EXCEPT !.listed = @ \cup {state},
                             !.counters = [st \in mon.listed \cup {state} |->
                                             IF st = state THEN n ELSE mon.counters[st]]]
    /\ UNCHANGED <<pods, created, kctx, krun, keepService, pool, kin>>

\* part_007:675-683: the monitor returns nil when every pod is counted
\* Succeeded, and also when every pod is counted Succeeded or Failed.
MonitorVerdict(counters) ==
    \/ counters["Succeeded"] = NumPods
    \/ counters["Succeeded"] + counters["Failed"] = NumPods

\* monitorTestplanRunState, after wg.Wait(): return nil or start over.
MonitorDecide ==
    /\ Deployed /\ mon.pc = "poll"
    /\ mon.listed = Listed
    /\ IF MonitorVerdict(mon.counters)
       THEN MonitorReturn("nil")
       ELSE /\ mon' = [mon EXCEPT !.listed = {}, !.counters = << >>,
                                  !.rounds = @ + 1]
            /\ UNCHANGED pool
    /\ UNCHANGED <<pods, created, kctx, krun, keepService, kin>>

\* err = eg.Wait(): the monitor and every createTestplanPod have returned;
\* an error of any of them ends Run.
RunWait ==
    /\ krun.pc = "wait"
    /\ mon.pc = "done"
    /\ \A p \in Pods : created[p] # "todo"
    /\ IF mon.ret = "err" \/ \E p \in Pods : created[p] = "err"
       THEN RunReturn("err")
       ELSE krun' = [krun EXCEPT !.pc = "logs"]
    /\ UNCHANGED <<pods, created, mon, kctx, keepService, pool, kin>>

\* The logs of every pod are fetched (TotalInstances <= 500); an error of
\* getPodLogs ends Run with it, else Run returns the RunOutput and nil.
RunLogs ==
    /\ krun.pc = "logs"
    /\ MayAcquire(pool)
    /\ \E r \in {"nil", "err"} : RunReturn(r)
    /\ UNCHANGED <<pods, created, mon, kctx, keepService, pool, kin>>

\* The deferred functions of Run, one per scheduled pod: each returns at
\* once when cfg.KeepService is set, else acquires a client and deletes its
\* pod. Then Run has returned.
RunDeferred ==
    /\ krun.pc = "deferred"
    /\ keepService \/ MayAcquire(pool)
    /\ pods' = [p \in Pods |->
                  IF p \in DeferredDeletes(keepService, Scheduled)
                  THEN [pods[p] EXCEPT !.deleted = TRUE] ELSE pods[p]]
    /\ krun' = [krun EXCEPT !.pc = "returned"]
    /\ UNCHANGED <<created, mon, kctx, keepService, pool, kin>>

notK8s == <<storageVars, queueVars, syncVars, subtreeVars, composeVars, execVars, dockerVars,
      svcVars,
      lateVars>>

K8sNext ==
    \/ K8sHealthcheck /\ UNCHANGED notK8s
    \/ RunPrecheckFails /\ UNCHANGED notK8s
    \/ RunCheckResources /\ UNCHANGED notK8s
    \/ RunSchedule /\ UNCHANGED notK8s
    \/ \E p \in Pods : createTestplanPod(p) /\ UNCHANGED notK8s
    \/ \E p \in Pods : PodStep(p) /\ UNCHANGED notK8s
    \/ CtxCancel /\ UNCHANGED notK8s
    \/ MonitorAcquire /\ UNCHANGED notK8s
    \/ MonitorCtxDone /\ UNCHANGED notK8s
    \/ MonitorTimeout /\ UNCHANGED notK8s
    \/ \E st \in Listed : countPodsByState(st) /\ UNCHANGED notK8s
    \/ MonitorDecide /\ UNCHANGED notK8s
    \/ RunWait /\ UNCHANGED notK8s
    \/ RunLogs /\ UNCHANGED notK8s
    \/ RunDeferred /\ UNCHANGED notK8s

\* The goroutines of Run and of its monitor are scheduled; the cluster, the
\* callers of Healthcheck and the owner of the context are free.
K8sFairness ==
    /\ WF_vars(RunCheckResources /\ UNCHANGED notK8s)
    /\ WF_vars(RunSchedule /\ UNCHANGED notK8s)
    /\ \A p \in Pods : WF_vars(createTestplanPod(p) /\ UNCHANGED notK8s)
    /\ WF_vars(MonitorAcquire /\ UNCHANGED notK8s)
    /\ WF_vars(MonitorCtxDone /\ UNCHANGED notK8s)
    /\ WF_vars(MonitorTimeout /\ UNCHANGED notK8s)
    /\ \A st \in Listed : WF_vars(countPodsByState(st) /\ UNCHANGED notK8s)
    /\ WF_vars(MonitorDecide /\ UNCHANGED notK8s)
    /\ WF_vars(RunWait /\ UNCHANGED notK8s)
    /\ WF_vars(RunLogs /\ UNCHANGED notK8s)
    /\ WF_vars(RunDeferred /\ UNCHANGED notK8s)

\* ========================================================================
\* Process runner (src/pkg/api/runner.go, src/pkg/runner/local_exec.go)
\* ========================================================================

\* input.Groups and g.Instances: the instances are numbered as the two
\* loops visit them, group after group.
NumExecGroups == 2

ExecPerGroup == 2

ExecInstances == 1..(NumExecGroups * ExecPerGroup)

\* The group of the instance with number n.
GroupOf(n) == ((n - 1) \div ExecPerGroup) + 1

\* What the host does to an instance: "ok", "dir" (os.MkdirAll of its
\* output directory fails) or "start" (cmd.Start fails).
Fates == {"ok", "dir", "start"}

ExecIdleRun == [pc |-> "idle", n |-> 1, k |-> 1, w |-> 1, ret |-> "none"]

ExecIdle ==
    /\ fate = [n \in ExecInstances |-> "ok"]
    /\ xrun = ExecIdleRun
    /\ proc = [n \in ExecInstances |-> "none"]
    /\ commands = << >>
    /\ failStart = [n \in ExecInstances |-> "none"]
    /\ killSent = {}
    /\ waited = {}
    /\ xctx = FALSE

\* LocalExecutableRunner.Run is called; commands is empty and the deferred
\* kill-and-wait is registered when the loop starts.
ExecInit ==
    /\ fate \in [ExecInstances -> Fates]
    /\ xrun = [ExecIdleRun EXCEPT !.pc = "start"]
    /\ proc = [n \in ExecInstances |-> "none"]
    /\ commands = << >>
    /\ failStart = [n \in ExecInstances |-> "none"]
    /\ killSent = {}
    /\ waited = {}
    /\ xctx = FALSE

\* local_exec.go:45-95: the sequence number is invalid, the temporary
\* redis cannot be started or the outputs directory cannot be made: Run
\* returns the error before the loop and its defer.
ExecSetupFails ==
    /\ xrun.pc = "start"
    /\ xrun' = [xrun EXCEPT !.pc = "returned", !.ret = "err"]
    /\ UNCHANGED <<fate, proc, commands, failStart, killSent, waited, xctx>>

\* The defer is registered and the loop over the groups starts.
ExecBegin ==
    /\ xrun.pc = "start"
    /\ xrun' = [xrun EXCEPT !.pc = "loop"]
    /\ UNCHANGED <<fate, proc, commands, failStart, killSent, waited, xctx>>

\* The instance the loop turns to after one whose directory or start
\* failed: `continue`.
AfterFailStartMutGivesUp(n) == NumExecGroups * ExecPerGroup + 1

AfterFailStart(n) == n + 1

\* One pass of the inner loop, for the instance xrun.n: MkdirAll, then
\* cmd.Start, which also fails when the context is already done; a failure
\* goes to pretty.FailStart under the id of the instance, a started
\* command is appended to commands.
ExecInstance ==
    /\ xrun.pc = "loop"
    /\ xrun.n \in ExecInstances
    /\ LET n == xrun.n IN
       \/ /\ fate[n] = "dir"
          /\ failStart' = [failStart EXCEPT ![n] = "dir"]
          /\ xrun' = [xrun EXCEPT !.n = AfterFailStart(n)]
          /\ UNCHANGED <<proc, commands>>
       \/ /\ fate[n] = "start" \/ (fate[n] = "ok" /\ xctx)
          /\ failStart' = [failStart EXCEPT ![n] = IF fate[n] = "start" THEN "start" ELSE "ctx"]
          /\ xrun' = [xrun EXCEPT !.n = AfterFailStart(n)]
          /\ UNCHANGED <<proc, commands>>
       \/ /\ fate[n] = "ok" /\ ~xctx
          /\ proc' = [proc EXCEPT ![n] = "running"]
          /\ commands' = Append(commands, n)
          /\ xrun' = [xrun EXCEPT !.n = n + 1]
          /\ UNCHANGED failStart
    /\ UNCHANGED <<fate, killSent, waited, xctx>>

\* The loops are over.
ExecLoopEnd ==
    /\ xrun.pc = "loop"
    /\ xrun.n \notin ExecInstances
    /\ xrun' = [xrun EXCEPT !.pc = "pretty"]
    /\ UNCHANGED <<fate, proc, commands, failStart, killSent, waited, xctx>>

\* A child process ends by itself, or is killed by exec.CommandContext
\* once the context is done.
ProcExit(n) ==
    /\ proc[n] = "running"
    /\ proc' = [proc EXCEPT ![n] = "exited"]
    /\ UNCHANGED <<fate, xrun, commands, failStart, killSent, waited, xctx>>

\* The orchestrator cancels the context of the run.
ExecCtxCancel ==
    /\ xrun.pc \in {"loop", "pretty"}
    /\ ~xctx
    /\ xctx' = TRUE
    /\ UNCHANGED <<fate, xrun, proc, commands, failStart, killSent, waited>>

\* pretty.Wait(): the output of every managed instance has ended; its
\* error, if any, is Run's. The deferred function runs next.
PrettyWait ==
    /\ xrun.pc = "pretty"
    /\ \A i \in DOMAIN commands : proc[commands[i]] = "exited"
    /\ \E r \in {"nil", "err"} : xrun' = [xrun EXCEPT !.pc = "defer", !.ret = r]
    /\ UNCHANGED <<fate, proc, commands, failStart, killSent, waited, xctx>>

\* The deferred function, first loop: cmd.Process.Kill() on the k-th
\* command.
DeferKill ==
    /\ xrun.pc = "defer"
    /\ xrun.k \in DOMAIN commands
    /\ killSent' = killSent \cup {commands[xrun.k]}
    /\ proc' = [proc EXCEPT ![commands[xrun.k]] = "exited"]
    /\ xrun' = [xrun EXCEPT !.k = @ + 1]
    /\ UNCHANGED <<fate, commands, failStart, waited, xctx>>

\* The second loop of the deferred function starts when the first is
\* over.
WaitsStartMutAfterOwnKill(r, cmds) == r.w < r.k

WaitsStart(r, cmds) == r.k > Len(cmds)

\* The deferred function, second loop: cmd.Wait() on the w-th command.
DeferWait ==
    /\ xrun.pc = "defer"
    /\ WaitsStart(xrun, commands)
    /\ xrun.w \in DOMAIN commands
    /\ proc[commands[xrun.w]] = "exited"
    /\ waited' = waited \cup {commands[xrun.w]}
    /\ xrun' = [xrun EXCEPT !.w = @ + 1]
    /\ UNCHANGED <<fate, proc, commands, failStart, killSent, xctx>>

\* The deferred function is over (its pretty.Wait() included): Run returns.
ExecReturn ==
    /\ xrun.pc = "defer"
    /\ xrun.k > Len(commands) /\ xrun.w > Len(commands)
    /\ xrun' = [xrun EXCEPT !.pc = "returned"]
    /\ UNCHANGED <<fate, proc, commands, failStart, killSent, waited, xctx>>

notExec == <<storageVars, queueVars, syncVars, subtreeVars, composeVars, k8sVars, dockerVars,
      svcVars,
      lateVars>>

ExecNext ==
    \/ ExecSetupFails /\ UNCHANGED notExec
    \/ ExecBegin /\ UNCHANGED notExec
    \/ ExecInstance /\ UNCHANGED notExec
    \/ ExecLoopEnd /\ UNCHANGED notExec
    \/ \E n \in ExecInstances : ProcExit(n) /\ UNCHANGED notExec
    \/ ExecCtxCancel /\ UNCHANGED notExec
    \/ PrettyWait /\ UNCHANGED notExec
    \/ DeferKill /\ UNCHANGED notExec
    \/ DeferWait /\ UNCHANGED notExec
    \/ ExecReturn /\ UNCHANGED notExec

\* ========================================================================
\* Container runner (src/pkg/runner/local_docker.go)
\* ========================================================================

\* ratelimit = make(chan struct{}, 16), in Run and in deleteContainers.
StartLimit == 16

RemoveLimit == 16

NumDockerGroups == 2

MaxDockerPerGroup == 2

DockerGroups == 1..NumDockerGroups

\* g.Instances of every group, for runs of a few containers.
SmallSizes == [DockerGroups -> 0..MaxDockerPerGroup]

\* g.Instances of every group, for a run of more containers than the
\* limits: as many as StartLimit in the first group, one in every other.
LargeSizes == {[g \in DockerGroups |-> IF g = 1 THEN StartLimit ELSE 1]}

\* cfg after the merge: KeepContainers, Unstarted, Background; mergeFails
\* is whether mergo.Merge returns an error.
DockerConfigs ==
    [KeepContainers : BOOLEAN, Unstarted : BOOLEAN, Background : BOOLEAN,
     mergeFails : BOOLEAN]

NoDockerRun ==
    [pc |-> "idle", g |-> 1, i |-> 0, err |-> FALSE, failed |-> FALSE,
     ret |-> "none"]

\* The goroutines that start the containers: waiting for the rate limit,
\* with ContainerStart in flight, returned; failed is whether one of them
\* returned an error, which cancels gctx; spawned is whether Run has reached
\* the starting phase, waited whether g.Wait() has returned.
NoStarts ==
    [spawned |-> FALSE, wait |-> 0, flight |-> 0, done |-> 0,
     failed |-> FALSE, waited |-> FALSE]

\* deleteContainers: the goroutines waiting for the rate limit, with
\* ContainerRemove in flight, sending its result on errs, and those whose
\* send was received; the collecting loop is in iteration i and has, or
\* has not, read an error in this iteration; failed counts the errors
\* received.
NoDelete ==
    [pc |-> "none", wait |-> 0, flight |-> 0, sending |-> 0, done |-> 0,
     i |-> 0, second |-> FALSE, failed |-> 0]

DockerRest ==
    /\ dnet = "none"
    /\ containers = << >>
    /\ starts = NoStarts
    /\ started = [len |-> 0, closed |-> FALSE]
    /\ logs = "none"
    /\ doneCh = << >>
    /\ dctx = FALSE
    /\ del = NoDelete

DockerIdle ==
    /\ dsize = [g \in DockerGroups |-> 0]
    /\ dcfg = [KeepContainers |-> FALSE, Unstarted |-> FALSE,
               Background |-> FALSE, mergeFails |-> FALSE]
    /\ drun = NoDockerRun
    /\ DockerRest

\* LocalDockerRunner.Run is called for a few containers.
DockerInit ==
    /\ dsize \in SmallSizes
    /\ dcfg \in DockerConfigs
    /\ drun = [NoDockerRun EXCEPT !.pc = "start"]
    /\ DockerRest

\* LocalDockerRunner.Run is called for more containers than the limits,
\* with a configuration under which it either starts its containers and
\* keeps them (KeepContainers) or deletes them unstarted (Unstarted).
DockerLargeInit ==
    /\ dsize \in LargeSizes
    /\ dcfg \in {c \in DockerConfigs :
                   ~c.mergeFails /\ c.KeepContainers # c.Unstarted}
    /\ drun = [NoDockerRun EXCEPT !.pc = "start"]
    /\ DockerRest

\* return without a deferred cleanup
DockerReturn(r) == drun' = [drun EXCEPT !.pc = "returned", !.ret = r]

\* client.NewClientWithOpts or newDataNetwork fails: Run returns the
\* error; there is no data network.
DockerSetupFails ==
    /\ drun.pc = "start"
    /\ DockerReturn("err")
    /\ UNCHANGED <<dsize, dcfg, dnet, containers, starts, started, logs,
                   doneCh, dctx, del>>

\* newDataNetwork: the data network of the run is created.
newDataNetwork ==
    /\ drun.pc = "start"
    /\ dnet' = "created"
    /\ drun' = [drun EXCEPT !.pc = "merge"]
    /\ UNCHANGED <<dsize, dcfg, containers, starts, started, logs,
                   doneCh, dctx, del>>

\* mergo.Merge(&cfg, input.RunnerConfig): on an error Run returns it.
MergeConfig ==
    /\ drun.pc = "merge"
    /\ IF dcfg.mergeFails THEN DockerReturn("err")
       ELSE drun' = [drun EXCEPT !.pc = "loop", !.g = 1, !.i = 0]
    /\ UNCHANGED <<dsize, dcfg, dnet, containers, starts, started, logs,
                   doneCh, dctx, del>>

\* One pass of the inner loop for the instance i of the group g:
\* os.MkdirAll, ContainerCreate, append, attachContainerToNetwork. Each
\* sets err; on an error the loop of the group is left (break) and the
\* next group follows. failed records that some pass has set an error,
\* which the later passes do not keep in err.
CreateInstance ==
    /\ drun.pc = "loop"
    /\ drun.g \in DockerGroups
    /\ drun.i < dsize[drun.g]
    /\ \/ \* MkdirAll or ContainerCreate fails
          /\ drun' = [drun EXCEPT !.err = TRUE, !.failed = TRUE,
                                   !.g = @ + 1, !.i = 0]
          /\ UNCHANGED containers
       \/ \* the container is created, the attach fails
          /\ containers' = Append(containers, <<drun.g, drun.i>>)
          /\ drun' = [drun EXCEPT !.err = TRUE, !.failed = TRUE,
                                   !.g = @ + 1, !.i = 0]
       \/ /\ containers' = Append(containers, <<drun.g, drun.i>>)
          /\ drun' = [drun EXCEPT !.err = FALSE, !.i = @ + 1]
    /\ UNCHANGED <<dsize, dcfg, dnet, starts, started, logs, doneCh, dctx, del>>

\* The inner loop of the group g is over.
NextGroup ==
    /\ drun.pc = "loop"
    /\ drun.g \in DockerGroups
    /\ drun.i >= dsize[drun.g]
    /\ drun' = [drun EXCEPT !.g = @ + 1, !.i = 0]
    /\ UNCHANGED <<dsize, dcfg, dnet, containers, starts, started, logs,
                   doneCh, dctx, del>>

\* The request context is cancelled.
DockerCtxCancel ==
    /\ drun.pc \in {"loop", "select"}
    /\ ~dctx
    /\ dctx' = TRUE
    /\ UNCHANGED <<dsize, dcfg, drun, dnet, containers, starts, started,
                   logs, doneCh, del>>

\* Run leaves its body with the result r: the deferred functions run,
\* first cancel(), then the cleanup if it was registered (cfg.KeepContainers
\* unset), which starts deleteContainers with one goroutine per container.
DockerLeave(r) ==
    IF dcfg.KeepContainers
    THEN /\ DockerReturn(r)
         /\ UNCHANGED del
    ELSE /\ drun' = [drun EXCEPT !.pc = "cleanup", !.ret = r]
         /\ del' = [NoDelete EXCEPT !.pc = "collect", !.wait = Len(containers)]

\* local_docker.go:294-313: the cleanup is deferred; an error of the loops
\* ends Run, and so does cfg.Unstarted.
AfterLoops ==
    /\ drun.pc = "loop"
    /\ drun.g \notin DockerGroups
    /\ IF drun.err THEN DockerLeave("err") /\ UNCHANGED <<starts, logs>>
       ELSE IF dcfg.Unstarted THEN DockerLeave("nil") /\ UNCHANGED <<starts, logs>>
       ELSE /\ drun' = [drun EXCEPT !.pc = "select"]
            /\ starts' = [NoStarts EXCEPT !.spawned = TRUE, !.wait = Len(containers)]
            /\ logs' = IF dcfg.Background THEN "none" ELSE "recv"
            /\ UNCHANGED del
    /\ UNCHANGED <<dsize, dcfg, dnet, containers, started, doneCh, dctx>>

\* The calls a rate limit of n lets in next to the ones that hold it.
MayEnterMutUnlimited(holding, n) == TRUE

MayEnter(holding, n) == holding < n

\* ratelimit <- struct{}{} in a starting goroutine; ContainerStart is in
\* flight next.
StartAcquire ==
    /\ starts.wait > 0
    /\ MayEnter(starts.flight, StartLimit)
    /\ starts' = [starts EXCEPT !.wait = @ - 1, !.flight = @ + 1]
    /\ UNCHANGED <<dsize, dcfg, drun, dnet, containers, started, logs,
                   doneCh, dctx, del>>

\* The context of the starting phase is done: the request's was cancelled,
\* or Run has left its body (defer cancel()).
InnerCtxDone == dctx \/ drun.pc \in {"cleanup", "network", "returned"}

\* ContainerStart returns; without an error the id goes to started unless
\* gctx is done; the rate limit is released.
StartReturns ==
    /\ starts.flight > 0
    /\ \/ /\ starts' = [starts EXCEPT !.flight = @ - 1, !.done = @ + 1]
          /\ started' = IF starts.failed \/ InnerCtxDone
                        THEN started
                        ELSE [started EXCEPT !.len = @ + 1]
       \/ /\ starts' = [starts EXCEPT !.flight = @ - 1, !.done = @ + 1,
                                      !.failed = TRUE]
          /\ UNCHANGED started
    /\ UNCHANGED <<dsize, dcfg, drun, dnet, containers, logs, doneCh, dctx, del>>

\* g.Wait() returns in its goroutine: started is closed and the error, if
\* any, goes to doneCh.
StartsWaited ==
    /\ starts.spawned
    /\ starts.wait = 0 /\ starts.flight = 0
    /\ ~starts.waited
    /\ starts' = [starts EXCEPT !.waited = TRUE]
    /\ started' = [started EXCEPT !.closed = TRUE]
    /\ doneCh' = IF starts.failed THEN Append(doneCh, "err") ELSE doneCh
    /\ UNCHANGED <<dsize, dcfg, drun, dnet, containers, logs, dctx, del>>

\* The goroutine that attaches the logs: it takes an id from started and
\* calls ContainerLogs, whose error goes to doneCh; or it yields to a done
\* context.
LogsReceive ==
    /\ logs = "recv"
    /\ \/ /\ started.len > 0
          /\ started' = [started EXCEPT !.len = @ - 1]
          /\ \/ UNCHANGED <<logs, doneCh>>
             \/ logs' = "done" /\ doneCh' = Append(doneCh, "err")
       \/ /\ started.len = 0 /\ started.closed
          /\ logs' = "pretty"
          /\ UNCHANGED <<started, doneCh>>
       \/ /\ InnerCtxDone
          /\ logs' = "done"
          /\ doneCh' = Append(doneCh, "err")
          /\ UNCHANGED started
    /\ UNCHANGED <<dsize, dcfg, drun, dnet, containers, starts, dctx, del>>

\* The same goroutine after started was closed: the result of
\* pretty.Wait() goes to doneCh, or the error of a done context.
LogsWait ==
    /\ logs = "pretty"
    /\ \E r \in {"nil", "err"} : doneCh' = Append(doneCh, r)
    /\ logs' = "done"
    /\ UNCHANGED <<dsize, dcfg, drun, dnet, containers, starts, started, dctx, del>>

\* local_docker.go:414-420: Run takes the first value of doneCh, or the
\* error of the done context, and returns it with the RunOutput.
RunSelect ==
    /\ drun.pc = "select"
    /\ \/ /\ doneCh # << >>
          /\ doneCh' = Tail(doneCh)
          /\ DockerLeave(Head(doneCh))
       \/ /\ dctx
          /\ UNCHANGED doneCh
          /\ DockerLeave("err")
    /\ UNCHANGED <<dsize, dcfg, dnet, containers, starts, started, logs, dctx>>

\* ratelimit <- struct{}{} in a goroutine of deleteContainers;
\* ContainerRemove is in flight next.
RemoveAcquire ==
    /\ del.pc = "collect"
    /\ del.wait > 0
    /\ MayEnter(del.flight + del.sending, RemoveLimit)
    /\ del' = [del EXCEPT !.wait = @ - 1, !.flight = @ + 1]
    /\ UNCHANGED <<dsize, dcfg, drun, dnet, containers, starts, started,
                   logs, doneCh, dctx>>

\* ContainerRemove returns and the goroutine sends the result on errs; it
\* holds the rate limit until the send is received.
RemoveReturns ==
    /\ del.pc = "collect"
    /\ del.flight > 0
    /\ del' = [del EXCEPT !.flight = @ - 1, !.sending = @ + 1]
    /\ UNCHANGED <<dsize, dcfg, drun, dnet, containers, starts, started,
                   logs, doneCh, dctx>>

\* local_docker.go:440-445: the loop receives a result from errs, nil or
\* the error of the removal; after an error it receives once more in the
\* same iteration, for multierror.Append.
CollectReceive ==
    /\ del.pc = "collect"
    /\ del.i < Len(containers)
    /\ del.sending > 0
    /\ \/ \* nil, or the second receive of the iteration
          /\ del' = [del EXCEPT !.sending = @ - 1, !.done = @ + 1,
                                !.i = @ + 1, !.second = FALSE]
       \/ \* an error, first or second receive
          /\ del' = [del EXCEPT !.sending = @ - 1, !.done = @ + 1,
                                !.i = IF del.second THEN @ + 1 ELSE @,
                                !.second = ~del.second,
                                !.failed = @ + 1]
    /\ UNCHANGED <<dsize, dcfg, drun, dnet, containers, starts, started,
                   logs, doneCh, dctx>>

\* deleteContainers returns; the cleanup goes on to the data network.
CollectReturns ==
    /\ drun.pc = "cleanup"
    /\ del.pc = "collect"
    /\ del.i = Len(containers)
    /\ del' = [del EXCEPT !.pc = "returned"]
    /\ drun' = [drun EXCEPT !.pc = "network"]
    /\ UNCHANGED <<dsize, dcfg, dnet, containers, starts, started, logs,
                   doneCh, dctx>>

\* cli.NetworkRemove(ctx, dataNetworkID), whose error is logged; the
\* deferred function is over and Run returns.
NetworkRemove ==
    /\ drun.pc = "network"
    /\ dnet' = "removeIssued"
    /\ drun' = [drun EXCEPT !.pc = "returned"]
    /\ UNCHANGED <<dsize, dcfg, containers, starts, started, logs, doneCh,
                   dctx, del>>

notDocker == <<storageVars, queueVars, syncVars, subtreeVars, composeVars, k8sVars, execVars,
      svcVars,
      lateVars>>

DockerNext ==
    \/ DockerSetupFails /\ UNCHANGED notDocker
    \/ newDataNetwork /\ UNCHANGED notDocker
    \/ MergeConfig /\ UNCHANGED notDocker
    \/ CreateInstance /\ UNCHANGED notDocker
    \/ NextGroup /\ UNCHANGED notDocker
    \/ DockerCtxCancel /\ UNCHANGED notDocker
    \/ AfterLoops /\ UNCHANGED notDocker
    \/ StartAcquire /\ UNCHANGED notDocker
    \/ StartReturns /\ UNCHANGED notDocker
    \/ StartsWaited /\ UNCHANGED notDocker
    \/ LogsReceive /\ UNCHANGED notDocker
    \/ LogsWait /\ UNCHANGED notDocker
    \/ RunSelect /\ UNCHANGED notDocker
    \/ RemoveAcquire /\ UNCHANGED notDocker
    \/ RemoveReturns /\ UNCHANGED notDocker
    \/ CollectReceive /\ UNCHANGED notDocker
    \/ CollectReturns /\ UNCHANGED notDocker
    \/ NetworkRemove /\ UNCHANGED notDocker

\* The goroutines of deleteContainers and its collecting loop are
\* scheduled, and so is the rest of the deferred cleanup.
DockerFairness ==
    /\ WF_vars(RemoveAcquire /\ UNCHANGED notDocker)
    /\ WF_vars(RemoveReturns /\ UNCHANGED notDocker)
    /\ WF_vars(CollectReceive /\ UNCHANGED notDocker)
    /\ WF_vars(CollectReturns /\ UNCHANGED notDocker)
    /\ WF_vars(NetworkRemove /\ UNCHANGED notDocker)

\* ========================================================================
\* Runner lock (src/pkg/runner/local_docker.go, src/pkg/api/runner.go)
\* ========================================================================

NumCallers == 3
Callers == 1..NumCallers

\* r.lk: the goroutines holding it for reading, the one holding it for
\* writing (0 if none), and the ones blocked in Lock
NoLock == [readers |-> {}, writer |-> 0, pending |-> {}]

LockIdle ==
    /\ lk = NoLock
    /\ call = [c \in Callers |-> "idle"]

LockInit == LockIdle

\* sync.RWMutex: a reader enters unless the lock is held for writing or a
\* writer is blocked in Lock
MayRLockMutIgnoresWriter(l) == TRUE

MayRLock(l) == l.writer = 0 /\ l.pending = {}

\* sync.RWMutex: a writer enters once nobody holds the lock
MayLock(l) == l.writer = 0 /\ l.readers = {}

\* a goroutine calls Run, CollectOutputs or Healthcheck
CallRun(c) ==
    /\ call[c] = "idle"
    /\ call' = [call EXCEPT ![c] = "Run:RLock"]
    /\ UNCHANGED lk

CallCollectOutputs(c) ==
    /\ call[c] = "idle"
    /\ call' = [call EXCEPT ![c] = "CollectOutputs:RLock"]
    /\ UNCHANGED lk

CallHealthcheck(c) ==
    /\ call[c] = "idle"
    /\ call' = [call EXCEPT ![c] = "Healthcheck:Lock"]
    /\ lk' = [lk EXCEPT !.pending = @ \cup {c}]

\* r.lk.RLock() returns in Run
RunRLock(c) ==
    /\ call[c] = "Run:RLock"
    /\ MayRLock(lk)
    /\ lk' = [lk EXCEPT !.readers = @ \cup {c}]
    /\ call' = [call EXCEPT ![c] = "Run"]

\* Run returns: the deferred r.lk.RUnlock()
RunRUnlock(c) ==
    /\ call[c] = "Run"
    /\ lk' = [lk EXCEPT !.readers = @ \ {c}]
    /\ call' = [call EXCEPT ![c] = "idle"]

\* r.lk.RLock() returns in CollectOutputs
CollectRLock(c) ==
    /\ call[c] = "CollectOutputs:RLock"
    /\ MayRLock(lk)
    /\ lk' = [lk EXCEPT !.readers = @ \cup {c}]
    /\ call' = [call EXCEPT ![c] = "CollectOutputs"]

\* dir := r.outputsDir; r.lk.RUnlock()
CollectRUnlock(c) ==
    /\ call[c] = "CollectOutputs"
    /\ lk' = [lk EXCEPT !.readers = @ \ {c}]
    /\ call' = [call EXCEPT ![c] = "idle"]

\* r.lk.Lock() returns in Healthcheck
HealthcheckLock(c) ==
    /\ call[c] = "Healthcheck:Lock"
    /\ MayLock(lk)
    /\ lk' = [lk EXCEPT !.writer = c, !.pending = @ \ {c}]
    /\ call' = [call EXCEPT ![c] = "Healthcheck"]

\* Healthcheck returns: the deferred r.lk.Unlock()
HealthcheckUnlock(c) ==
    /\ call[c] = "Healthcheck"
    /\ lk' = [lk EXCEPT !.writer = 0]
    /\ call' = [call EXCEPT ![c] = "idle"]

notLock ==
    <<storageVars, queueVars, syncVars, subtreeVars, extVars, sidecarVars, netVars, healthVars,
      outputVars, buildVars,
      lateVars>>

LockNext ==
    \/ \E c \in Callers : CallRun(c) /\ UNCHANGED notLock
    \/ \E c \in Callers : CallCollectOutputs(c) /\ UNCHANGED notLock
    \/ \E c \in Callers : CallHealthcheck(c) /\ UNCHANGED notLock
    \/ \E c \in Callers : RunRLock(c) /\ UNCHANGED notLock
    \/ \E c \in Callers : RunRUnlock(c) /\ UNCHANGED notLock
    \/ \E c \in Callers : CollectRLock(c) /\ UNCHANGED notLock
    \/ \E c \in Callers : CollectRUnlock(c) /\ UNCHANGED notLock
    \/ \E c \in Callers : HealthcheckLock(c) /\ UNCHANGED notLock
    \/ \E c \in Callers : HealthcheckUnlock(c) /\ UNCHANGED notLock

\* ========================================================================
\* Sidecar (src/unnamed/part_012)
\* ========================================================================

\* The network configurations a test instance publishes during a run.
MaxConfigs == 3

\* The states the configurations name.
NetStates == {"s1", "s2"}

\* const netInitState = "network-initialized"
netInitState == "network-initialized"

\* instance.RunEnv.TestInstanceCount: the sidecars of the run
TestInstanceCount == 2

\* The states that are signalled: the ones of the configurations and the
\* network-initialized state.
SideStates == NetStates \cup {netInitState}

\* The handler of an instance: its position, the configuration it is
\* applying and the state to acknowledge, what it returned; replayed is
\* the number of configurations that were published before it subscribed.
NoSidecar ==
    [pc |-> "idle", cfg |-> 0, State |-> "none", ret |-> "none",
     replayed |-> 0]

SidecarIdle ==
    /\ networkChanges = << >>
    /\ published = << >>
    /\ subClosed = FALSE
    /\ side = NoSidecar
    /\ sideLog = << >>
    /\ sideCounter = [s \in SideStates |-> 0]

\* The handler of one instance has passed the network-initialized barrier
\* and subscribed to the instance's subtree.
SidecarInit ==
    /\ networkChanges = << >>
    /\ published = << >>
    /\ subClosed = FALSE
    /\ side = [NoSidecar EXCEPT !.pc = "range"]
    /\ sideLog = << >>
    /\ sideCounter = [s \in SideStates |->
                        IF s = netInitState THEN TestInstanceCount ELSE 0]

\* The handler of one instance is called.
SidecarRunInit ==
    /\ networkChanges = << >>
    /\ published = << >>
    /\ subClosed = FALSE
    /\ side = [NoSidecar EXCEPT !.pc = "start"]
    /\ sideLog = << >>
    /\ sideCounter = [s \in SideStates |-> 0]

\* The handler has not subscribed yet.
BeforeSubscribe == side.pc \in {"start", "barrier", "subscribe"}

\* The handler's own signals of the network-initialized state.
OwnNetInit == Cardinality({i \in DOMAIN sideLog : sideLog[i].ev = "initialized"})

\* Where the handler goes after signalling network-initialized.
AfterNetInitMutSkipsBarrier == "subscribe"

AfterNetInit == "barrier"

\* instance.Writer.SignalEntry(netInitState): the counter is incremented,
\* or the call fails and the handler returns the error.
SignalNetInit ==
    /\ side.pc = "start"
    /\ \/ /\ sideCounter' = [sideCounter EXCEPT ![netInitState] = @ + 1]
          /\ sideLog' = Append(sideLog, [ev |-> "initialized", cfg |-> 0])
          /\ side' = [side EXCEPT !.pc = AfterNetInit]
       \/ /\ side' = [side EXCEPT !.pc = "returned", !.ret = "err"]
          /\ UNCHANGED <<sideLog, sideCounter>>
    /\ UNCHANGED <<networkChanges, published, subClosed>>

\* The sidecar of another instance of the run signals network-initialized.
PeerSignals ==
    /\ BeforeSubscribe
    /\ sideCounter[netInitState] - OwnNetInit < TestInstanceCount - 1
    /\ sideCounter' = [sideCounter EXCEPT ![netInitState] = @ + 1]
    /\ UNCHANGED <<networkChanges, published, subClosed, side, sideLog>>

\* <-instance.Watcher.Barrier(ctx, netInitState, TestInstanceCount): nil
\* once the counter has reached the count, an error when ctx is done.
BarrierReturns ==
    /\ side.pc = "barrier"
    /\ \E c \in BOOLEAN :
          LET v == Verdict([cancelled |-> c, key |-> netInitState,
                            target |-> TestInstanceCount], sideCounter)
          IN  /\ v # "empty"
              /\ side' = IF v = "nil" THEN [side EXCEPT !.pc = "subscribe"]
                         ELSE [side EXCEPT !.pc = "returned", !.ret = "err"]
    /\ UNCHANGED <<networkChanges, published, subClosed, sideLog, sideCounter>>

\* What a new subscription delivers first: the entries published so far.
Replay(pub) == [i \in 1..Len(pub) |-> [id |-> i, State |-> pub[i]]]

\* instance.Watcher.Subscribe(subtree, networkChanges): the subscription
\* starts with the entries already in the subtree; or it fails and the
\* handler returns the error.
SubscribeChanges ==
    /\ side.pc = "subscribe"
    /\ \/ /\ side' = [side EXCEPT !.pc = "range", !.replayed = Len(published)]
          /\ networkChanges' = Replay(published)
       \/ /\ side' = [side EXCEPT !.pc = "returned", !.ret = "err"]
          /\ UNCHANGED networkChanges
    /\ UNCHANGED <<published, subClosed, sideLog, sideCounter>>

\* The instance publishes a configuration on its subtree and the
\* subscription delivers it to networkChanges; configurations are numbered
\* in the order of their publication.
PublishConfig(s) ==
    /\ side.pc # "idle"
    /\ ~subClosed
    /\ Len(published) < MaxConfigs
    /\ published' = Append(published, s)
    /\ networkChanges' =
          IF BeforeSubscribe THEN networkChanges
          ELSE Append(networkChanges, [id |-> Len(published) + 1, State |-> s])
    /\ UNCHANGED <<subClosed, side, sideLog, sideCounter>>

\* The subscription ends and closes networkChanges.
SubscriptionEnds ==
    /\ side.pc # "idle"
    /\ ~BeforeSubscribe
    /\ ~subClosed
    /\ subClosed' = TRUE
    /\ UNCHANGED <<networkChanges, published, side, sideLog, sideCounter>>

\* for cfg := range networkChanges: the next configuration is received.
RangeReceive ==
    /\ side.pc = "range"
    /\ networkChanges # << >>
    /\ side' = [side EXCEPT !.pc = "configure",
                            !.cfg = Head(networkChanges).id,
                            !.State = Head(networkChanges).State]
    /\ networkChanges' = Tail(networkChanges)
    /\ UNCHANGED <<published, subClosed, sideLog, sideCounter>>

\* for cfg := range networkChanges: the channel is closed and drained, the
\* handler returns nil.
RangeEnds ==
    /\ side.pc = "range"
    /\ networkChanges = << >>
    /\ subClosed
    /\ side' = [side EXCEPT !.pc = "returned", !.ret = "nil"]
    /\ UNCHANGED <<networkChanges, published, subClosed, sideLog, sideCounter>>

\* Where the loop goes once ConfigureNetwork has returned err.
AfterConfigureMutSignalsAnyway(err) == "signal"

AfterConfigure(err) == IF err THEN "returned" ELSE "signal"

\* instance.Network.ConfigureNetwork(ctx, cfg) returns, with an error or
\* without.
ConfigureReturns ==
    /\ side.pc = "configure"
    /\ \E err \in BOOLEAN :
          /\ side' = [side EXCEPT !.pc = AfterConfigure(err),
                                  !.ret = IF AfterConfigure(err) = "returned"
                                          THEN "err" ELSE @]
          /\ sideLog' = Append(sideLog, [ev |-> IF err THEN "failed" ELSE "applied",
                                         cfg |-> side.cfg])
    /\ UNCHANGED <<networkChanges, published, subClosed, sideCounter>>

\* instance.Writer.SignalEntry(cfg.State) increments the counter, or fails
\* and the handler returns the error.
SignalState ==
    /\ side.pc = "signal"
    /\ \/ /\ sideCounter' = [sideCounter EXCEPT ![side.State] = @ + 1]
          /\ sideLog' = Append(sideLog, [ev |-> "signalled", cfg |-> side.cfg])
          /\ side' = [side EXCEPT !.pc = "range"]
       \/ /\ side' = [side EXCEPT !.pc = "returned", !.ret = "err"]
          /\ UNCHANGED <<sideLog, sideCounter>>
    /\ UNCHANGED <<networkChanges, published, subClosed>>

notSidecar ==
    <<storageVars, queueVars, syncVars, subtreeVars, extVars, lockVars, netVars, healthVars,
      outputVars, buildVars,
      lateVars>>

SidecarNext ==
    \/ \E s \in NetStates : PublishConfig(s) /\ UNCHANGED notSidecar
    \/ SubscriptionEnds /\ UNCHANGED notSidecar
    \/ RangeReceive /\ UNCHANGED notSidecar
    \/ RangeEnds /\ UNCHANGED notSidecar
    \/ ConfigureReturns /\ UNCHANGED notSidecar
    \/ SignalState /\ UNCHANGED notSidecar

\* The handler from its call on.
SidecarRunNext ==
    \/ SignalNetInit /\ UNCHANGED notSidecar
    \/ PeerSignals /\ UNCHANGED notSidecar
    \/ BarrierReturns /\ UNCHANGED notSidecar
    \/ SubscribeChanges /\ UNCHANGED notSidecar
    \/ SidecarNext

\* ========================================================================
\* Cluster network of the sidecar (src/unnamed/part_013)
\* ========================================================================

\* The CNI attaches of one network the model follows.
MaxAttaches == 3

\* Addresses; 0 stands for a nil *net.IPNet.
Addrs == 1..2

\* sync.NetworkConfig: the fields ConfigureNetwork reads
NetworkConfigs ==
    [Network : {"default", "other"}, Enable : BOOLEAN, IPv4 : {0} \cup Addrs,
     IPv6 : {0, 1}, Rules : {0, 1}]

\* n.activeLinks[cfg.Network] when the network is not active
NoLink == [id |-> 0, IPv4 |-> 0, IPv6 |-> 0]

NoCall ==
    [cfg |-> [Network |-> "default", Enable |-> FALSE, IPv4 |-> 0, IPv6 |-> 0,
              Rules |-> 0],
     link |-> NoLink, up |-> 0, cni |-> << >>, ret |-> "none"]

\* manageContainer: activeLinks: make(map[string]*k8sLink). cniUp is the
\* link attached through CNI, the last one a successful AddNetworkList
\* made unless a successful DelNetworkList followed; 0 if none.
NetIdle ==
    /\ activeLinks = NoLink
    /\ attached = 0
    /\ cniUp = 0
    /\ ncall = NoCall

NetInit == NetIdle

\* The condition of the reconnect (part_013:229-230), link being the active
\* link: reading link.IPv6.IP panics when link.IPv6 is nil.
AddressDiffersMutNever(link, cfg) == "same"

AddressDiffers(link, cfg) ==
    IF cfg.IPv6 # 0
    THEN IF link.IPv6 = 0 THEN "panic"
         ELSE IF link.IPv6 # cfg.IPv6 THEN "differs"
         ELSE IF cfg.IPv4 # 0 /\ link.IPv4 # cfg.IPv4 THEN "differs" ELSE "same"
    ELSE IF cfg.IPv4 # 0 /\ link.IPv4 # cfg.IPv4 THEN "differs" ELSE "same"

\* The call ends: what it was given, the link and the attachment it
\* found, the CNI calls it issued and what it returned.
NetReturn(cfg, cni, ret) ==
    ncall' = [cfg |-> cfg, link |-> activeLinks, up |-> cniUp, cni |-> cni,
              ret |-> ret]

\* cfg.Network != "default"
ConfigureNotDefault(cfg) ==
    /\ cfg.Network # "default"
    /\ NetReturn(cfg, << >>, "err")
    /\ UNCHANGED <<activeLinks, attached, cniUp>>

\* !cfg.Enable: DelNetworkList when the network is active
ConfigureDisable(cfg) ==
    /\ cfg.Network = "default"
    /\ ~cfg.Enable
    /\ IF activeLinks # NoLink
       THEN \/ /\ NetReturn(cfg, <<"DelNetworkList">>, "err")
               /\ UNCHANGED <<activeLinks, cniUp>>
            \/ /\ NetReturn(cfg, <<"DelNetworkList">>, "nil")
               /\ activeLinks' = NoLink /\ cniUp' = 0
       ELSE NetReturn(cfg, << >>, "nil") /\ UNCHANGED <<activeLinks, cniUp>>
    /\ UNCHANGED attached

\* The connect of part_013:244-310 and what follows it, after the CNI
\* calls before, which have left the attachment att: the network config
\* list, AddNetworkList, the registration of the link (LinkByName,
\* NewNetlinkLink, ListV4), the rules and the shaping, each of which may
\* fail.
Connect(cfg, before, att) ==
    IF cfg.IPv6 # 0
    THEN /\ NetReturn(cfg, before, "err")
         /\ activeLinks' = NoLink /\ cniUp' = att /\ UNCHANGED attached
    ELSE \/ \* newNetworkConfigList fails
            /\ NetReturn(cfg, before, "err")
            /\ activeLinks' = NoLink /\ cniUp' = att /\ UNCHANGED attached
         \/ \* AddNetworkList fails
            /\ NetReturn(cfg, Append(before, "AddNetworkList"), "err")
            /\ activeLinks' = NoLink /\ cniUp' = att /\ UNCHANGED attached
         \/ \* attached, the registration of the link fails
            /\ NetReturn(cfg, Append(before, "AddNetworkList"), "err")
            /\ activeLinks' = NoLink
            /\ attached' = attached + 1 /\ cniUp' = attached + 1
         \/ \E a \in (IF cfg.IPv4 # 0 THEN {cfg.IPv4} ELSE Addrs) :
              /\ attached' = attached + 1 /\ cniUp' = attached + 1
              /\ activeLinks' = [id |-> attached + 1, IPv4 |-> a, IPv6 |-> 0]
              /\ \/ NetReturn(cfg, Append(before, "AddNetworkList"), "err")
                 \/ cfg.Rules = 0 /\ NetReturn(cfg, Append(before, "AddNetworkList"), "nil")

\* cfg.Enable on a network that is not active
ConfigureEnable(cfg) ==
    /\ cfg.Network = "default"
    /\ cfg.Enable
    /\ activeLinks = NoLink
    /\ Connect(cfg, << >>, cniUp)

\* cfg.Enable on an active network: reconnect when an address differs,
\* else only the rules and the shaping.
ConfigureActive(cfg) ==
    /\ cfg.Network = "default"
    /\ cfg.Enable
    /\ activeLinks # NoLink
    /\ LET d == AddressDiffers(activeLinks, cfg)
       IN  IF d = "panic"
           THEN /\ NetReturn(cfg, << >>, "panic")
                /\ UNCHANGED <<activeLinks, attached, cniUp>>
           ELSE IF d = "differs"
           THEN \/ /\ NetReturn(cfg, <<"DelNetworkList">>, "err")
                   /\ UNCHANGED <<activeLinks, attached, cniUp>>
                \/ Connect(cfg, <<"DelNetworkList">>, 0)
           ELSE /\ \/ NetReturn(cfg, << >>, "err")
                   \/ cfg.Rules = 0 /\ NetReturn(cfg, << >>, "nil")
                /\ UNCHANGED <<activeLinks, attached, cniUp>>

\* K8sNetwork.ConfigureNetwork
ConfigureNetwork(cfg) ==
    /\ ncall.ret # "panic"
    /\ attached < MaxAttaches
    /\ \/ ConfigureNotDefault(cfg)
       \/ ConfigureDisable(cfg)
       \/ ConfigureEnable(cfg)
       \/ ConfigureActive(cfg)

notNet ==
    <<storageVars, queueVars, syncVars, subtreeVars, extVars, lockVars, sidecarVars, healthVars,
      outputVars, buildVars,
      lateVars>>

NetNext == \E cfg \in NetworkConfigs : ConfigureNetwork(cfg) /\ UNCHANGED notNet

\* ========================================================================
\* Healthcheck of the local runners (src/unnamed/part_006,
\* src/pkg/runner/local_docker.go)
\* ========================================================================

\* The invocations of Healthcheck the model follows.
MaxInvocations == 3

\* What the checks look at on the host.
Resources ==
    {"workdir", "testground-control", "testground-grafana", "testground-redis",
     "testground-sidecar"}

\* hh.Enlist(name, checker, fixer), in the order of the calls: the resource
\* the checker looks for and the one the fixer creates or starts.
EnlistedMutRedisFixStartsGrafana ==
    << [name |-> "local-outputs-dir", checks |-> "workdir", fixes |-> "workdir"],
       [name |-> "control-network", checks |-> "testground-control",
        fixes |-> "testground-control"],
       [name |-> "local-grafana", checks |-> "testground-grafana",
        fixes |-> "testground-grafana"],
       [name |-> "local-redis", checks |-> "testground-redis",
        fixes |-> "testground-grafana"],
       [name |-> "sidecar-container", checks |-> "testground-sidecar",
        fixes |-> "testground-sidecar"] >>

Enlisted ==
    << [name |-> "local-outputs-dir", checks |-> "workdir", fixes |-> "workdir"],
       [name |-> "control-network", checks |-> "testground-control",
        fixes |-> "testground-control"],
       [name |-> "local-grafana", checks |-> "testground-grafana",
        fixes |-> "testground-grafana"],
       [name |-> "local-redis", checks |-> "testground-redis",
        fixes |-> "testground-redis"],
       [name |-> "sidecar-container", checks |-> "testground-sidecar",
        fixes |-> "testground-sidecar"] >>

NoHealthcheck == [pc |-> "idle", fix |-> FALSE, item |-> 1, report |-> << >>]

HealthIdle ==
    /\ host = {}
    /\ hc = NoHealthcheck
    /\ reports = << >>

\* Any host: each resource is there or not.
HealthInit ==
    /\ host \in SUBSET Resources
    /\ hc = NoHealthcheck
    /\ reports = << >>

\* Healthcheck(ctx, engine, ow, fix) is called and enlists its checks.
HealthcheckCalled(fix) ==
    /\ hc.pc = "idle"
    /\ Len(reports) < MaxInvocations
    /\ hc' = [pc |-> "checks", fix |-> fix, item |-> 1, report |-> << >>]
    /\ UNCHANGED <<host, reports>>

\* RunChecks, one enlisted item: the check succeeds, or it fails and, with
\* fix, the fixer is attempted, which succeeds or fails; without fix the
\* fix is omitted.
RunCheck ==
    /\ hc.pc = "checks"
    /\ hc.item <= Len(Enlisted)
    /\ LET li == Enlisted[hc.item]
       IN  IF li.checks \in host
           THEN /\ hc' = [hc EXCEPT !.item = @ + 1,
                                    !.report = Append(@, [check |-> "ok", fix |-> "omitted"])]
                /\ UNCHANGED host
           ELSE IF ~hc.fix
           THEN /\ hc' = [hc EXCEPT !.item = @ + 1,
                                    !.report = Append(@, [check |-> "failed", fix |-> "omitted"])]
                /\ UNCHANGED host
           ELSE \/ /\ hc' = [hc EXCEPT !.item = @ + 1,
                                       !.report = Append(@, [check |-> "failed", fix |-> "ok"])]
                   /\ host' = host \cup {li.fixes}
                \/ /\ hc' = [hc EXCEPT !.item = @ + 1,
                                       !.report = Append(@, [check |-> "failed", fix |-> "failed"])]
                   /\ UNCHANGED host
    /\ UNCHANGED reports

\* RunChecks returns the report.
RunChecksReturns ==
    /\ hc.pc = "checks"
    /\ hc.item > Len(Enlisted)
    /\ reports' = Append(reports, [fix |-> hc.fix, items |-> hc.report])
    /\ hc' = NoHealthcheck
    /\ UNCHANGED host

notHealth ==
    <<storageVars, queueVars, syncVars, subtreeVars, extVars, lockVars, sidecarVars, netVars,
      outputVars, buildVars,
      lateVars>>

HealthNext ==
    \/ \E fix \in BOOLEAN : HealthcheckCalled(fix) /\ UNCHANGED notHealth
    \/ RunCheck /\ UNCHANGED notHealth
    \/ RunChecksReturns /\ UNCHANGED notHealth

\* ========================================================================
\* Output directories of the local runners (src/pkg/api/runner.go,
\* src/pkg/runner/local_docker.go, src/pkg/runner/local_exec.go)
\* ========================================================================

\* The runs of one plan on one runner the model follows, and their run IDs.
NumRuns == 2
RunIDs == [r \in 1..NumRuns |-> IF r = 1 THEN "r1" ELSE IF r = 2 THEN "r2" ELSE "r3"]

\* g.Instances is at most
MaxOutInstances == 2

\* The group IDs of a run: names, and the IDs that are path elements of
\* their own to filepath.Join.
OutGroupIDs == {"a", "b", "", ".", ".."}

\* input.Groups: one or two groups with different IDs
OutGroups ==
    {<<[ID |-> a, Instances |-> n]>> : a \in OutGroupIDs, n \in 1..MaxOutInstances}
      \cup {gs \in {<<[ID |-> a, Instances |-> n], [ID |-> b, Instances |-> 1]>> :
                        a \in OutGroupIDs, b \in OutGroupIDs, n \in 1..MaxOutInstances} :
                gs[1].ID # gs[2].ID}

\* strconv.Itoa(i) for the ordinals of the model
Itoa(i) == IF i = 0 THEN "0" ELSE IF i = 1 THEN "1" ELSE IF i = 2 THEN "2" ELSE "3"

\* filepath.Clean over the elements of a path: empty elements and "." are
\* dropped, ".." drops the element before it.
RECURSIVE Clean(_, _)
Clean(elems, acc) ==
    IF elems = << >> THEN acc
    ELSE LET e == Head(elems)
         IN  IF e = "" \/ e = "." THEN Clean(Tail(elems), acc)
             ELSE IF e = ".." /\ acc # << >>
                  THEN Clean(Tail(elems), SubSeq(acc, 1, Len(acc) - 1))
             ELSE Clean(Tail(elems), Append(acc, e))

\* filepath.Join: the cleaned path of the elements
JoinMutNoRunID(outputsDir, plan, run, group, i) ==
    Clean(<<outputsDir, plan, group, i>>, << >>)

Join(outputsDir, plan, run, group, i) ==
    Clean(<<outputsDir, plan, run, group, i>>, << >>)

NoOutRun == [RunID |-> "none", Groups |-> << >>, g |-> 1, i |-> 0, launched |-> 0]

OutputIdle ==
    /\ oruns = [r \in 1..NumRuns |-> NoOutRun]
    /\ odirs = [r \in 1..NumRuns |-> << >>]

\* Run is called for each run, with its groups.
OutputInit ==
    /\ \E gs \in [1..NumRuns -> OutGroups] :
          oruns = [r \in 1..NumRuns |->
                     [RunID |-> RunIDs[r], Groups |-> gs[r], g |-> 1, i |-> 0,
                      launched |-> 0]]
    /\ odirs = [r \in 1..NumRuns |-> << >>]

\* One round of the inner loop of Run: the output directory of the
\* instance is created (os.MkdirAll) and the instance is launched.
MkdirAll(r) ==
    /\ oruns[r].RunID # "none"
    /\ oruns[r].g <= Len(oruns[r].Groups)
    /\ LET run == oruns[r]
           g == run.Groups[run.g]
           odir == Join("outputs", "plan", run.RunID, g.ID, Itoa(run.i))
       IN  /\ odirs' = [odirs EXCEPT ![r] = Append(@, [group |-> g.ID, i |-> run.i, odir |-> odir])]
           /\ oruns' = [oruns EXCEPT ![r] =
                          IF run.i + 1 < g.Instances
                          THEN [run EXCEPT !.i = @ + 1, !.launched = @ + 1]
                          ELSE [run EXCEPT !.g = @ + 1, !.i = 0, !.launched = @ + 1]]

notOutput ==
    <<storageVars, queueVars, syncVars, subtreeVars, extVars, lockVars, sidecarVars,
      netVars, healthVars, buildVars,
      lateVars>>

OutputNext == \E r \in 1..NumRuns : MkdirAll(r) /\ UNCHANGED notOutput

\* ========================================================================
\* Build handler of the daemon (src/unnamed/part_009, src/unnamed/part_011)
\* ========================================================================

\* The archives a request carries after its payload.
MaxParts == 2

\* One archive: the kind its file name gives and the step of its unpacking
\* that fails.
BuildParts == [kind : {"plan", "sdk"}, fails : {"none", "create", "unzip"}]

BuildPartSeqs == UNION {[1..n -> BuildParts] : n \in 0..MaxParts}

\* A request: whether the packing directory can be made, the body, the
\* Content-Type, the first part, the archives, how the parts end and what
\* engine.QueueBuild answers.
BuildRequests ==
    [mkdirAll : {"ok", "err"}, body : {"nil", "present"},
     contentType : {"invalid", "text", "multipart"},
     first : {"err", "undecodable", "ok"},
     parts : BuildPartSeqs, last : {"EOF", "err"}, queue : {"ok", "err"}]

NoBuild == [pc |-> "idle", part |-> 1, unpacked |-> FALSE, dirs |-> {}, PlanDir |-> ""]

BuildIdle ==
    /\ breq = [mkdirAll |-> "ok", body |-> "nil", contentType |-> "invalid",
               first |-> "err", parts |-> << >>, last |-> "EOF", queue |-> "ok"]
    /\ bh = NoBuild
    /\ chunks = << >>
    /\ queued = 0

\* The handler is called with a request.
BuildInit ==
    /\ breq \in BuildRequests
    /\ bh = [NoBuild EXCEPT !.pc = "start"]
    /\ chunks = << >>
    /\ queued = 0

\* tgw.WriteError: the warning goes to the response as a progress chunk,
\* then the error chunk.
WriteError(c) == Append(Append(c, "progress"), "error")

\* tgw.WriteResult
WriteResult(c) == Append(c, "result")

\* The handler answers the error and returns.
BuildFails ==
    /\ chunks' = WriteError(chunks)
    /\ bh' = [bh EXCEPT !.pc = "done"]
    /\ UNCHANGED <<breq, queued>>

\* os.MkdirAll(dir, 0755)
BuildMkdirAll ==
    /\ bh.pc = "start"
    /\ IF breq.mkdirAll = "err" THEN BuildFails
       ELSE bh' = [bh EXCEPT !.pc = "consume"] /\ UNCHANGED <<breq, chunks, queued>>

\* consumeRunBuildRequest up to the payload: the body, the Content-Type,
\* the first part and its decoding.
ConsumePayload ==
    /\ bh.pc = "consume"
    /\ IF \/ breq.body = "nil"
          \/ breq.contentType # "multipart"
          \/ breq.first # "ok"
       THEN BuildFails
       ELSE bh' = [bh EXCEPT !.pc = "parts"] /\ UNCHANGED <<breq, chunks, queued>>

\* consumeRunBuildRequest, one archive: os.Create, io.Copy, os.Mkdir (which
\* fails when the directory of the kind is there already), Unarchive.
ConsumePart ==
    /\ bh.pc = "parts"
    /\ bh.part <= Len(breq.parts)
    /\ LET p == breq.parts[bh.part]
       IN  IF p.fails # "none" \/ p.kind \in bh.dirs
           THEN BuildFails
           ELSE /\ bh' = [bh EXCEPT !.part = @ + 1, !.unpacked = TRUE,
                                    !.dirs = @ \cup {p.kind},
                                    !.PlanDir = IF p.kind = "plan" THEN "plan" ELSE @]
                /\ UNCHANGED <<breq, chunks, queued>>

\* consumeRunBuildRequest, after the archives: io.EOF or a read error.
ConsumeEnds ==
    /\ bh.pc = "parts"
    /\ bh.part > Len(breq.parts)
    /\ IF breq.last = "err" THEN BuildFails
       ELSE bh' = [bh EXCEPT !.pc = "check"] /\ UNCHANGED <<breq, chunks, queued>>

\* sources == nil || sources.PlanDir == ""
PlanMissingMutNeverChecked(unpacked, PlanDir) == FALSE

PlanMissing(unpacked, PlanDir) == ~unpacked \/ PlanDir = ""

\* The check of the plan directory, engine.QueueBuild and the answer.
BuildQueue ==
    /\ bh.pc = "check"
    /\ IF PlanMissing(bh.unpacked, bh.PlanDir)
       THEN BuildFails
       ELSE /\ queued' = queued + 1
            /\ chunks' = IF breq.queue = "err" THEN WriteError(chunks)
                         ELSE WriteResult(chunks)
            /\ bh' = [bh EXCEPT !.pc = "done"]
            /\ UNCHANGED breq

notBuild ==
    <<storageVars, queueVars, syncVars, subtreeVars, extVars, lockVars, sidecarVars,
      netVars, healthVars, outputVars,
      lateVars>>

BuildNext ==
    \/ BuildMkdirAll /\ UNCHANGED notBuild
    \/ ConsumePayload /\ UNCHANGED notBuild
    \/ ConsumePart /\ UNCHANGED notBuild
    \/ ConsumeEnds /\ UNCHANGED notBuild
    \/ BuildQueue /\ UNCHANGED notBuild

\* ========================================================================
\* Specifications
\* ========================================================================

\* Nothing is being validated or run.
ExtIdle == ComposeIdle /\ K8sIdle /\ ExecIdle /\ DockerIdle

\* No call on a runner, no sidecar, no healthcheck and no request.
SvcIdle ==
    LockIdle /\ SidecarIdle /\ NetIdle /\ HealthIdle /\ OutputIdle /\ BuildIdle

\* ========================================================================
\* Data networks of the container runner (src/pkg/runner/local_docker.go)
\* ========================================================================

NumNetRuns == 3
NetRuns == 1..NumNetRuns

\* A Run of the container runner as far as its data network goes: not yet
\* at newDataNetwork, with the networks listed (n of them), with its
\* network live under the index idx, failed, or with the network removed
\* by the deferred cleanup. seen holds the indices that were live at the
\* listing; raced is whether the live networks had changed between the
\* listing and the creation, clash whether the index asked for was the
\* one of a live network.
NoNetRun ==
    [pc |-> "idle", n |-> 0, idx |-> 0, seen |-> {}, raced |-> FALSE,
     clash |-> FALSE]

SubnetIdle == nruns = [r \in NetRuns |-> NoNetRun]

SubnetInit == SubnetIdle

\* The indices of the data networks that exist.
LiveIndices(nr) == {nr[r].idx : r \in {s \in NetRuns : nr[s].pc = "live"}}

\* The networks cli.NetworkList returns under the label
\* testground.name=default: the live data networks of all runs.
NetworkList(nr) == {r \in NetRuns : nr[r].pc = "live"}

\* The index handed to nextDataNetwork for a listing of n networks.
SubnetIndex(n) == n

\* local_docker.go:451-462: the networks are listed; an error is returned.
DataNetworkList(r) ==
    /\ nruns[r].pc = "idle"
    /\ \/ nruns' = [nruns EXCEPT ![r].pc = "listed",
                                  ![r].n = Cardinality(NetworkList(nruns)),
                                  ![r].seen = LiveIndices(nruns)]
       \/ nruns' = [nruns EXCEPT ![r].pc = "failed"]

\* local_docker.go:464-485: nextDataNetwork(len(networks)) and
\* docker.NewBridgeNetwork with that subnet; the daemon creates the
\* network or returns an error.
DataNetworkCreate(r) ==
    /\ nruns[r].pc = "listed"
    /\ LET i == SubnetIndex(nruns[r].n)
           asked == [nruns[r] EXCEPT !.idx = i,
                        !.raced = LiveIndices(nruns) # nruns[r].seen,
                        !.clash = i \in LiveIndices(nruns)]
       IN  \/ nruns' = [nruns EXCEPT ![r] = [asked EXCEPT !.pc = "live"]]
           \/ nruns' = [nruns EXCEPT ![r] = [asked EXCEPT !.pc = "failed"]]

\* local_docker.go:294-303: the deferred cleanup of Run removes its data
\* network.
DataNetworkRemove(r) ==
    /\ nruns[r].pc = "live"
    /\ nruns' = [nruns EXCEPT ![r].pc = "removed"]

notSubnet ==
    <<storageVars, queueVars, syncVars, subtreeVars, extVars, svcVars,
      writerVars, filterVars>>

SubnetNext ==
    \/ \E r \in NetRuns : DataNetworkList(r) /\ UNCHANGED notSubnet
    \/ \E r \in NetRuns : DataNetworkCreate(r) /\ UNCHANGED notSubnet
    \/ \E r \in NetRuns : DataNetworkRemove(r) /\ UNCHANGED notSubnet

\* ========================================================================
\* Response writer (src/unnamed/part_011)
\* ========================================================================

NumOutWriters == 2
NumOutCallers == 2

\* The OutputWriters of one response: 1 is the one NewOutputWriter made,
\* the others were derived with With. All share out and progressWriter.
OutWriters == 1..NumOutWriters
OutCallers == 1..NumOutCallers

\* A goroutine calling into a writer: the method (a progress write,
\* WriteResult, WriteError), the writer it was called on, and where it is:
\* in the Warnw of WriteError, before Lock, inside out.Write, or idle.
NoOutCall == [pc |-> "idle", kind |-> "progress", w |-> 1]

\* omu[w] is the goroutine holding the Mutex of the writer w, 0 if none.
WriterIdle ==
    /\ omu = [w \in OutWriters |-> 0]
    /\ ocall = [c \in OutCallers |-> NoOutCall]

WriterInit == WriterIdle

\* The writer whose Mutex progressWriter.Write locks: w.ow, wired to the
\* writer NewOutputWriter made and shared by the derived writers.
ProgressLock == 1

\* The writer whose Mutex a WriteResult or WriteError on w locks: the
\* receiver's own; With gives a derived writer a Mutex of its own.
ResultLock(w) == w

\* The Mutex a call locks around out.Write.
LockOf(call_) ==
    IF call_.kind = "progress" THEN ProgressLock ELSE ResultLock(call_.w)

\* A method of a writer of the response is called; WriteError logs its
\* message first, which is a progress write.
OutCall(c, kind, w) ==
    /\ ocall[c].pc = "idle"
    /\ ocall' = [ocall EXCEPT ![c] =
                    [pc |-> IF kind = "error" THEN "warn" ELSE "lock",
                     kind |-> kind, w |-> w]]
    /\ UNCHANGED omu

\* ow.Warnw in WriteError: the progress write of the message, under the
\* Mutex of progressWriter.ow, from Lock to out.Write.
WarnLock(c) ==
    /\ ocall[c].pc = "warn"
    /\ omu[ProgressLock] = 0
    /\ omu' = [omu EXCEPT ![ProgressLock] = c]
    /\ ocall' = [ocall EXCEPT ![c].pc = "warnWrite"]

\* The progress write of WriteError is over: Unlock.
WarnUnlock(c) ==
    /\ ocall[c].pc = "warnWrite"
    /\ omu' = [omu EXCEPT ![ProgressLock] = 0]
    /\ ocall' = [ocall EXCEPT ![c].pc = "lock"]

\* Lock() before out.Write
OutLock(c) ==
    /\ ocall[c].pc = "lock"
    /\ omu[LockOf(ocall[c])] = 0
    /\ omu' = [omu EXCEPT ![LockOf(ocall[c])] = c]
    /\ ocall' = [ocall EXCEPT ![c].pc = "write"]

\* out.Write has returned: the deferred Unlock, and the method returns.
OutUnlock(c) ==
    /\ ocall[c].pc = "write"
    /\ omu' = [omu EXCEPT ![LockOf(ocall[c])] = 0]
    /\ ocall' = [ocall EXCEPT ![c] = NoOutCall]

\* The goroutines inside a Write of the underlying writer.
InWrite == {c \in OutCallers : ocall[c].pc \in {"warnWrite", "write"}}

notWriter ==
    <<storageVars, queueVars, syncVars, subtreeVars, extVars, svcVars,
      subnetVars, filterVars>>

WriterNext ==
    \/ \E c \in OutCallers, k \in {"progress", "result", "error"},
          w \in OutWriters : OutCall(c, k, w) /\ UNCHANGED notWriter
    \/ \E c \in OutCallers : WarnLock(c) /\ UNCHANGED notWriter
    \/ \E c \in OutCallers : WarnUnlock(c) /\ UNCHANGED notWriter
    \/ \E c \in OutCallers : OutLock(c) /\ UNCHANGED notWriter
    \/ \E c \in OutCallers : OutUnlock(c) /\ UNCHANGED notWriter

\* ========================================================================
\* Range scans of the task storage (src/pkg/task/storage.go)
\* ========================================================================

\* Tasks created in later seconds: xid strings whose second has two
\* decimal digits.
LaterIDs == FirstLaterID..LastLaterID

\* The arguments start and end of Filter, as Unix seconds; -1 is a time
\* before 1970.
Stamps == (-1)..MaxStamp

\* The states Filter's switch knows.
StateScheduled == "scheduled"
StateProcessing == "processing"
StateComplete == "complete"

FilterStates == {StateScheduled, StateProcessing, StateComplete}

\* The switch of Filter: the prefix of a state.
StatePrefix(state) ==
    CASE state = StateScheduled -> prefixScheduled
      [] state = StateProcessing -> prefixProcessing
      [] state = StateComplete -> prefixComplete

\* The bytes of the prefixes.
PrefixBytes(prefix) ==
    CASE prefix = prefixScheduled -> <<113, 117, 101, 117, 101>>
      [] prefix = prefixProcessing -> <<99, 117, 114, 114, 101, 110, 116>>
      [] prefix = prefixComplete -> <<97, 114, 99, 104, 105, 118, 101>>

RECURSIVE Digits(_)
Digits(n) == IF n < 10 THEN <<48 + n>> ELSE Digits(n \div 10) \o <<48 + (n % 10)>>

\* strconv.FormatInt(n, 10): the decimal digits, after "-" when negative.
FormatInt(n) == IF n < 0 THEN <<45>> \o Digits(0 - n) ELSE Digits(n)

\* u.String(): the xid string; one symbol stands for it, ordered as the
\* ids are.
XidBytes(id) == <<id>>

\* The bytes of a key: prefix ":" timestamp "_" id.
KeyBytes(key) ==
    PrefixBytes(key[1]) \o <<58>> \o FormatInt(key[2]) \o <<95>> \o XidBytes(key[3])

\* strings.Join([]string{prefix, FormatInt(t.Unix())}, ":"): a bound of
\* the range.
RangeBound(prefix, t) == PrefixBytes(prefix) \o <<58>> \o FormatInt(t)

\* bytes.Compare(a, b) < 0, the order of the keys in the store.
RECURSIVE BytesLess(_, _)
BytesLess(a, b) ==
    IF a = << >> THEN b # << >>
    ELSE IF b = << >> THEN FALSE
    ELSE IF a[1] # b[1] THEN a[1] < b[1]
    ELSE BytesLess(Tail(a), Tail(b))

\* util.Range{Start, Limit}: the keys k with Start <= k < Limit.
InRange(d, prefix, start, end) ==
    {k \in DOMAIN d :
        /\ ~BytesLess(KeyBytes(k), RangeBound(prefix, start))
        /\ BytesLess(KeyBytes(k), RangeBound(prefix, end))}

\* The iterator: the keys of a set in the order of their bytes.
RECURSIVE IterKeys(_)
IterKeys(K) ==
    IF K = {} THEN << >>
    ELSE LET k == CHOOSE x \in K :
                    \A y \in K \ {x} : BytesLess(KeyBytes(x), KeyBytes(y))
         IN  <<k>> \o IterKeys(K \ {k})

\* rangeIter(prefix, start, end): the tasks unmarshalled from the values of
\* the keys in the range, in the order of the iterator.
rangeIter(d, prefix, start, end) ==
    LET ks == IterKeys(InRange(d, prefix, start, end))
    IN  [i \in 1..Len(ks) |-> d[ks[i]].ID]

NoFilter == [state |-> "none", start |-> 0, end |-> 0, tasks |-> << >>]

FilterIdle == filtered = NoFilter

\* s.put(prefix, tsk) of a task created in a later second, when the
\* db.Put succeeds.
StoreLater(prefix, id) ==
    /\ txOwner = 0
    /\ Cardinality(DOMAIN db) < MaxStored
    /\ db' = DbPut(db, taskKey(prefix, id), TaskVal(id))
    /\ UNCHANGED <<txOwner, wk, persisted, won, doubleWin, filtered>>

\* s.delete(prefix, tsk) of such a task, when the db.Delete succeeds.
DeleteLater(prefix, id) ==
    /\ txOwner = 0
    /\ DbHas(db, taskKey(prefix, id))
    /\ db' = DbDelete(db, taskKey(prefix, id))
    /\ UNCHANGED <<txOwner, wk, persisted, won, doubleWin, filtered>>

\* Filter(state, start, end), called by the one caller of the model.
Filter(state, start, end) ==
    /\ filtered = NoFilter
    /\ filtered' = [state |-> state, start |-> start, end |-> end,
                    tasks |-> rangeIter(db, StatePrefix(state), start, end)]
    /\ UNCHANGED storageVars

\* The caller has read the answer.
FilterRead ==
    /\ filtered # NoFilter
    /\ filtered' = NoFilter
    /\ UNCHANGED storageVars

notFilter ==
    <<queueVars, syncVars, subtreeVars, extVars, svcVars, subnetVars,
      writerVars>>

FilterNext ==
    \/ \E p \in Prefixes, id \in LaterIDs : StoreLater(p, id) /\ UNCHANGED notFilter
    \/ \E p \in Prefixes, id \in LaterIDs : DeleteLater(p, id) /\ UNCHANGED notFilter
    \/ \E st \in FilterStates, s \in Stamps, e \in Stamps :
          Filter(st, s, e) /\ UNCHANGED notFilter
    \/ FilterRead /\ UNCHANGED notFilter

LateIdle == SubnetIdle /\ WriterIdle /\ FilterIdle

CoreInit == StorageInit /\ QueueInit /\ SyncInit /\ SubtreeInit

Init == CoreInit /\ ExtIdle /\ SvcIdle /\ LateIdle

Next ==
    \/ StorageNext \/ QueueNext \/ SyncNext \/ SubtreeNext \/ ComposeNext
    \/ K8sNext \/ ExecNext \/ DockerNext \/ LockNext \/ SidecarNext \/ NetNext
    \/ HealthNext \/ OutputNext \/ BuildNext \/ SubnetNext
    \/ WriterNext \/ SidecarRunNext \/ FilterNext

Spec == Init /\ [][Next]_vars

SpecStorage == Init /\ [][StorageNext]_vars

SpecQueue == Init /\ [][QueueNext]_vars

SpecSync == Init /\ [][SyncNext]_vars

SpecSyncFair == Init /\ [][SyncNext]_vars /\ SyncFairness

SpecSubtree == Init /\ [][SubtreeNext]_vars

SpecSubtreeFair == Init /\ [][SubtreeNext]_vars /\ SubtreeFairness

InitCompose ==
    /\ StorageInit /\ QueueInit /\ SyncInit /\ SubtreeInit /\ ComposeInit
    /\ K8sIdle /\ ExecIdle /\ DockerIdle /\ SvcIdle /\ LateIdle

SpecCompose == InitCompose /\ [][ComposeNext]_vars

InitK8s ==
    /\ StorageInit /\ QueueInit /\ SyncInit /\ SubtreeInit /\ ComposeIdle
    /\ K8sInit /\ ExecIdle /\ DockerIdle /\ SvcIdle /\ LateIdle

SpecK8s == InitK8s /\ [][K8sNext]_vars

SpecK8sFair == InitK8s /\ [][K8sNext]_vars /\ K8sFairness

InitExec ==
    /\ StorageInit /\ QueueInit /\ SyncInit /\ SubtreeInit /\ ComposeIdle
    /\ K8sIdle /\ ExecInit /\ DockerIdle /\ SvcIdle /\ LateIdle

SpecExec == InitExec /\ [][ExecNext]_vars

InitDocker ==
    /\ StorageInit /\ QueueInit /\ SyncInit /\ SubtreeInit /\ ComposeIdle
    /\ K8sIdle /\ ExecIdle /\ DockerInit /\ SvcIdle /\ LateIdle

SpecDocker == InitDocker /\ [][DockerNext]_vars

InitDockerLarge ==
    /\ StorageInit /\ QueueInit /\ SyncInit /\ SubtreeInit /\ ComposeIdle
    /\ K8sIdle /\ ExecIdle /\ DockerLargeInit /\ SvcIdle /\ LateIdle

SpecDockerLarge == InitDockerLarge /\ [][DockerNext]_vars

SpecDockerFair == InitDocker /\ [][DockerNext]_vars /\ DockerFairness

InitClose == CloseInit /\ ExtIdle /\ SvcIdle /\ LateIdle

InitLock ==
    CoreInit /\ ExtIdle /\ LockInit /\ SidecarIdle /\ NetIdle /\ HealthIdle /\ OutputIdle /\ BuildIdle /\ LateIdle

SpecLock == InitLock /\ [][LockNext]_vars

InitSidecar ==
    CoreInit /\ ExtIdle /\ LockIdle /\ SidecarInit /\ NetIdle /\ HealthIdle /\ OutputIdle /\ BuildIdle /\ LateIdle

SpecSidecar == InitSidecar /\ [][SidecarNext]_vars

InitSidecarRun ==
    /\ CoreInit /\ ExtIdle /\ LockIdle /\ SidecarRunInit /\ NetIdle /\ HealthIdle
    /\ OutputIdle /\ BuildIdle /\ LateIdle

SpecSidecarRun == InitSidecarRun /\ [][SidecarRunNext]_vars

InitFilter == CoreInit /\ ExtIdle /\ SvcIdle /\ LateIdle

SpecFilter == InitFilter /\ [][FilterNext]_vars

InitNet ==
    CoreInit /\ ExtIdle /\ LockIdle /\ SidecarIdle /\ NetInit /\ HealthIdle /\ OutputIdle /\ BuildIdle /\ LateIdle

SpecNet == InitNet /\ [][NetNext]_vars

InitHealth ==
    CoreInit /\ ExtIdle /\ LockIdle /\ SidecarIdle /\ NetIdle /\ HealthInit /\ OutputIdle /\ BuildIdle /\ LateIdle

SpecHealth == InitHealth /\ [][HealthNext]_vars

InitOutput ==
    /\ CoreInit /\ ExtIdle /\ LockIdle /\ SidecarIdle /\ NetIdle /\ HealthIdle
    /\ OutputInit /\ BuildIdle /\ LateIdle

SpecOutput == InitOutput /\ [][OutputNext]_vars

InitBuild ==
    /\ CoreInit /\ ExtIdle /\ LockIdle /\ SidecarIdle /\ NetIdle /\ HealthIdle
    /\ OutputIdle /\ BuildInit /\ LateIdle

SpecBuild == InitBuild /\ [][BuildNext]_vars

SpecClose == InitClose /\ [][CloseNext]_vars /\ CloseFairness

InitSubnet ==
    CoreInit /\ ExtIdle /\ SvcIdle /\ SubnetInit /\ WriterIdle /\ FilterIdle

SpecSubnet == InitSubnet /\ [][SubnetNext]_vars

InitWriter ==
    CoreInit /\ ExtIdle /\ SvcIdle /\ SubnetIdle /\ WriterInit /\ FilterIdle

SpecWriter == InitWriter /\ [][WriterNext]_vars

\* ========================================================================
\* Properties of the task storage
\* ========================================================================

\* C1: every task that was persisted and not deleted has its key under
\* exactly one of the prefixes queue, current, archive, after any sequence
\* of PersistScheduled, PersistProcessing, ProcessTask, ArchiveTask and
\* Delete by any number of workers, restarts included.
C1_ExactlyOnePrefix ==
    \A id \in persisted : Cardinality(PrefixesOf(db, id)) = 1

\* The two parts of C3. At most one ProcessTask succeeds for each time a
\* task is put under the queue prefix.
C3_OneWinner == ~doubleWin

\* No Get answers ErrNotFound for a task that was under the queue or the
\* current prefix during the whole call.
C3_NeverMissed == \A w \in Workers : ~(wk[w].ret = "notfound" /\ wk[w].cont)

\* C3: the move from Scheduled to Processing is atomic: of the ProcessTask
\* calls racing for one scheduled task exactly one succeeds, and no other
\* storage operation observes the task under both of queue and current or
\* under neither.
C3_AtomicMove == C3_OneWinner /\ C3_NeverMissed

\* ========================================================================
\* Properties of the task queue
\* ========================================================================

\* a is popped strictly before b by the order (priority desc, created asc).
Before(a, b) ==
    \/ a.Priority > b.Priority
    \/ a.Priority = b.Priority /\ a.Created < b.Created

\* C2: the pops made since the last push come out by decreasing priority
\* and, at equal priority, by increasing creation time; every task still
\* queued comes no earlier in that order than any task popped; and no task
\* is lost or invented, so that popping until the queue is empty yields
\* all the queued tasks in that order, whatever the order of the pushes.
C2_PopOrder ==
    /\ \A i, j \in DOMAIN popped : i < j => ~Before(popped[j], popped[i])
    /\ \A i \in DOMAIN popped, k \in DOMAIN tq : ~Before(tq[k], popped[i])
    /\ \A x \in QTasks : Count(tq, x) + Count(popped, x) = inq[x]

\* Submissions A, B, C with priorities 1, 2, 1, pushed in that order, have
\* been popped as B, A, C.
C2_Witness ==
    /\ tq = << >>
    /\ popped = <<QTask(2, 2), QTask(1, 1), QTask(1, 3)>>

\* ========================================================================
\* Properties of SignalEntry and Barrier
\* ========================================================================

\* The instances whose SignalEntry on k has incremented and not yet returned.
Signalling(k) == {i \in Instances : inst[i].pc = "signalled" /\ inst[i].key = k}

Range(q) == {q[n] : n \in DOMAIN q}

InBarrier(i) == inst[i].pc \in {"send", "result", "done"}

\* C4: for every state key the values returned by SignalEntry are 1, 2, ...
\* without gap or repetition: the values returned so far are pairwise
\* distinct, and together with the values of the calls that have
\* incremented but not returned yet they are exactly 1..n, n being the
\* number of successful increments (the counter).
C4_GapFree ==
    \A k \in StateKeys :
        /\ \A a, b \in DOMAIN got[k] : a # b => got[k][a] # got[k][b]
        /\ \A i, j \in Signalling(k) : i # j => inst[i].seq # inst[j].seq
        /\ Range(got[k]) \cap {inst[i].seq : i \in Signalling(k)} = {}
        /\ Range(got[k]) \cup {inst[i].seq : i \in Signalling(k)} = 1..counter[k]
        /\ Signalling(k) = {} => Range(got[k]) = 1..Len(got[k])

\* Two instances signalled the same key concurrently and the second
\* increment returned first: the values returned are 2 and then 1.
C4_Witness == \E k \in StateKeys : got[k] = <<2, 1>>

C6_BarrierCancelled ==
    \A i \in Instances :
        /\ [](inst[i].early => inst[i].ret # "nil")
        /\ (InBarrier(i) /\ inst[i].early) ~> (inst[i].pc = "idle" /\ inst[i].ret = "err")

\* A Barrier cancelled below its target has returned an error although the
\* counter reached the target afterwards.
C6_Witness ==
    \E i \in Instances :
        /\ inst[i].op = "Barrier" /\ inst[i].pc = "idle" /\ inst[i].ret = "err"
        /\ inst[i].early
        /\ counter[inst[i].key] >= inst[i].target

\* C7: a Barrier with target 0 returns nil in the step of the call, whatever
\* the counter and the context: it is never offered to the service loop,
\* never registered there, and never waits for its doneCh.
C7_ZeroTarget ==
    \A i \in Instances :
        (inst[i].op = "Barrier" /\ inst[i].target = 0)
        => /\ inst[i].pc = "idle"
           /\ inst[i].ret = "nil"
           /\ inst[i].done = "empty"
           /\ i \notin active

\* A Barrier with target 0 has returned nil with a cancelled context and a
\* counter at 0.
C7_Witness ==
    \E i \in Instances :
        /\ inst[i].op = "Barrier" /\ inst[i].target = 0 /\ inst[i].ret = "nil"
        /\ inst[i].cancelled /\ counter[inst[i].key] = 0

\* ========================================================================
\* Properties of publish and subscribe
\* ========================================================================

\* C8: the n-th publish to the subtree returns n, whichever writer
\* instance makes it: the numbers returned are 1, 2, 3, ... in publish
\* order, one per entry of the stream.
C8_WriteSequence ==
    /\ Len(wret) = Len(stream)
    /\ \A n \in DOMAIN wret : wret[n].seq = n

\* Three publishes through alternating writer instances returned 1, 2, 3.
C8_Witness ==
    /\ Len(wret) = 3
    /\ wret[1].w # wret[2].w /\ wret[2].w # wret[3].w
    /\ wret[3].seq = 3

\* What was sent to the subscriber so far: received, or in its channel.
Sent(u) == subs[u].recv \o subs[u].ch

\* C9: what a subscriber is sent is always the stream from its first entry
\* on, in publish order and without a gap or a repetition, so the entries
\* published before the subscription come first; and every entry of the
\* stream is eventually received by every subscription that stays open.
C9_InOrderNoSkip ==
    \A u \in Subscribers :
        /\ [](/\ Len(Sent(u)) <= Len(stream)
              /\ \A n \in DOMAIN Sent(u) : Sent(u)[n] = Entry(n, stream[n]))
        /\ \A n \in 1..(MaxStream + 1) :
              (subs[u].state = "open" /\ Len(stream) >= n)
              ~> (Len(subs[u].recv) >= n \/ subs[u].state = "closed")

\* A subscription made after the first publish and before the last one has
\* received the three entries of the stream.
C9_Witness ==
    \E u \in Subscribers :
        /\ subs[u].at \in 1..2
        /\ Len(stream) = 3
        /\ Len(subs[u].recv) = 3
        /\ \A n \in 1..3 : subs[u].recv[n] = Entry(n, stream[n])

\* The entries sent to u that carry the first publish.
FirstSent(u) == {n \in DOMAIN Sent(u) : Sent(u)[n].id = 1}

\* C10: a subscriber of a subtree that had no entry is sent the first
\* publish v exactly once, as v, and nothing ahead of it; and it receives
\* it, if the subscription stays open.
C10_EmptyThenPublish ==
    \A u \in Subscribers :
        /\ []((subs[u].state # "none" /\ subs[u].at = 0 /\ Sent(u) # << >>)
              => /\ stream # << >>
                 /\ Sent(u)[1] = Entry(1, stream[1])
                 /\ FirstSent(u) = {1})
        /\ (subs[u].state = "open" /\ subs[u].at = 0 /\ stream # << >>)
           ~> (subs[u].recv # << >> \/ subs[u].state = "closed")

\* A subscriber of the empty subtree has received the one entry published
\* since, and nothing else.
C10_Witness ==
    \E u \in Subscribers :
        /\ subs[u].state = "open" /\ subs[u].at = 0
        /\ Len(stream) = 1
        /\ subs[u].recv = <<Entry(1, stream[1])>>
        /\ subs[u].ch = << >>

Resolved(g, total) ==
    IF g.Count # 0 THEN g.Count ELSE Round(g.Percentage, total)

RECURSIVE SumResolved(_, _)
SumResolved(gs, total) ==
    IF gs = << >> THEN 0
    ELSE Resolved(Head(gs), total) + SumResolved(Tail(gs), total)

\* C12: a composition that ValidateForRun accepts has, after validation, a
\* Global.TotalInstances equal to the sum of the resolved instance counts
\* of its groups; and one supplied with a non-zero total that differs from
\* that sum is rejected.
C12_TotalIsSum ==
    cop = "run" =>
        /\ cret = "nil" =>
              SumResolved(given.Groups, given.TotalInstances) = comp.TotalInstances
        /\ (/\ given.TotalInstances # 0
            /\ SumResolved(given.Groups, given.TotalInstances) # given.TotalInstances)
           => cret = "err"

\* The same statement for the compositions whose sum fits a uint.
C12_TotalIsSumInRange ==
    (cop = "run" /\ SumResolved(given.Groups, given.TotalInstances) < UintMod) =>
        /\ cret = "nil" =>
              SumResolved(given.Groups, given.TotalInstances) = comp.TotalInstances
        /\ (/\ given.TotalInstances # 0
            /\ SumResolved(given.Groups, given.TotalInstances) # given.TotalInstances)
           => cret = "err"

HasDuplicateID(c) ==
    \E i, j \in DOMAIN c.Groups : i # j /\ c.Groups[i].ID = c.Groups[j].ID

MissingBuilder(c) ==
    \E i \in DOMAIN c.Groups : c.Groups[i].Builder = "" /\ c.Builder = ""

\* C13: ValidateForRun and ValidateForBuild reject every composition in
\* which two groups have the same ID and every composition in which some
\* group has neither a builder of its own nor a global builder.
C13_GroupsRejected ==
    (cop \in {"run", "build"} /\ (HasDuplicateID(given) \/ MissingBuilder(given)))
        => cret = "err"

\* A validation has rejected a composition for its groups alone: the
\* tags, the runs and the instances are valid, the total is the sum.
C13_Witness ==
    /\ cop \in {"run", "build"}
    /\ cret = "err"
    /\ given.tags = "ok" /\ given.runsValid
    /\ \A i \in DOMAIN iv : iv[i]
    /\ given.TotalInstances = 0
    /\ \A i \in DOMAIN given.Groups : given.Groups[i].Percentage = 0
    /\ HasDuplicateID(given) \/ MissingBuilder(given)

\* C14 as stated: the instance validation accepts a group's instances
\* exactly when one of count and percentage is not zero and the other is
\* zero.
C14_CountXorPercentage ==
    \A i \in DOMAIN iv :
        iv[i] <=> ((given.Groups[i].Count # 0) # (given.Groups[i].Percentage # 0))

\* C14, amended: the instance validation accepts a group's instances
\* exactly when the count is not zero and the percentage is zero, or the
\* count is zero and the percentage is above zero; a negative percentage
\* is rejected with or without a count.
C14_CountXorPositivePercentage ==
    \A i \in DOMAIN iv :
        iv[i] <=> \/ given.Groups[i].Count # 0 /\ given.Groups[i].Percentage = 0
                  \/ given.Groups[i].Count = 0 /\ given.Groups[i].Percentage > 0

\* The instance validation has run on a group with a count and a
\* percentage, which it rejected, and on a group with a percentage only,
\* which it accepted.
C14_Witness ==
    /\ cop # "none"
    /\ Len(iv) = 2
    /\ given.Groups[1].Count # 0 /\ given.Groups[1].Percentage > 0 /\ ~iv[1]
    /\ given.Groups[2].Count = 0 /\ given.Groups[2].Percentage > 0 /\ iv[2]

\* C15: ValidateForRun rejects every composition in which a group has a
\* percentage while the total is 0, and a rejected composition keeps the
\* Global.TotalInstances it was supplied with.
C15_PercentageNeedsTotal ==
    /\ (/\ cop = "run"
        /\ given.TotalInstances = 0
        /\ \E i \in DOMAIN given.Groups : given.Groups[i].Percentage # 0)
       => cret = "err"
    /\ (cop = "run" /\ cret = "err")
       => comp.TotalInstances = given.TotalInstances

\* ValidateForRun has rejected, in its counting loop, a composition that
\* is valid but for a percentage in its second group and no total; the
\* total is still 0.
C15_Witness ==
    /\ cop = "run" /\ cret = "err"
    /\ given.tags = "ok" /\ given.runsValid
    /\ ~HasDuplicateID(given) /\ ~MissingBuilder(given)
    /\ Len(iv) = 2 /\ iv[1] /\ iv[2]
    /\ given.TotalInstances = 0
    /\ given.Groups[1].Count # 0
    /\ given.Groups[2].Percentage > 0
    /\ comp.Groups[1].calculatedInstanceCnt = given.Groups[1].Count
    /\ comp.TotalInstances = 0

\* C16: Run of the cluster runner returns success (the RunOutput and a nil
\* error) only when every pod of the run ended Succeeded; when a pod ended
\* Failed, Run does not return success.
C16_SuccessIffAllSucceeded ==
    (krun.pc = "returned" /\ krun.ret = "nil")
        => \A p \in Pods : pods[p].phase = "Succeeded"

\* The instances whose command was started.
Started == {n \in ExecInstances : proc[n] # "none"}

\* C17: when the loop of the process runner is over, every instance of
\* every group has been attempted: an instance whose directory or start
\* failed has that failure recorded under its own id and was not started,
\* and every other instance was started, whatever happened to the ones
\* before it, unless the context was cancelled by then.
C17_SiblingsStillLaunched ==
    xrun.pc \in {"pretty", "defer", "returned"} /\ xrun.n > 1 =>
        \A n \in ExecInstances :
            /\ fate[n] # "ok" => failStart[n] = fate[n] /\ n \notin Started
            /\ fate[n] = "ok" =>
                  \/ n \in Started /\ failStart[n] = "none"
                  \/ n \notin Started /\ failStart[n] = "ctx"

\* The first instance of the first group failed on its directory, the
\* first of the second group on its start; their siblings run.
C17_Witness ==
    /\ xrun.pc = "pretty"
    /\ ~xctx
    /\ failStart[1] = "dir"
    /\ failStart[ExecPerGroup + 1] = "start"
    /\ Started = ExecInstances \ {1, ExecPerGroup + 1}
    /\ Started # {}

\* C18: when Run has returned, every child process it started has been
\* sent a kill and has been waited for; and no child is waited for before
\* every child has been sent its kill.
C18_KillAllThenWait ==
    /\ xrun.pc = "returned" => (Started \subseteq killSent /\ Started \subseteq waited)
    /\ waited # {} => Started \subseteq killSent

\* Run has returned after a cancellation, with two children started
\* before it, both killed and waited for.
C18_Witness ==
    /\ xrun.pc = "returned"
    /\ xctx
    /\ Cardinality(Started) = 2
    /\ killSent = Started /\ waited = Started

\* The ContainerRemove calls issued so far.
RemovesIssued == del.flight + del.sending + del.done

\* C19: with keep_containers unset, when Run of the container runner has
\* returned after it created the data network, a removal has been issued
\* for every container it created and for the data network.
C19_NothingLeftBehind ==
    (drun.pc = "returned" /\ ~dcfg.KeepContainers /\ dnet # "none")
        => /\ dnet = "removeIssued"
           /\ RemovesIssued = Len(containers)

\* The same statement for the runs whose configuration merges.
C19_NothingLeftBehindOnceMerged ==
    (drun.pc = "returned" /\ ~dcfg.KeepContainers /\ dnet # "none"
       /\ ~dcfg.mergeFails)
        => /\ dnet = "removeIssued"
           /\ RemovesIssued = Len(containers)

\* C20: at most 16 ContainerStart calls of a Run and at most 16
\* ContainerRemove calls of a deleteContainers are in flight at any time.
C20_AtMostSixteen ==
    /\ starts.flight <= 16
    /\ del.flight <= 16

\* A run of 17 containers: 16 ContainerStart calls are in flight and the
\* 17th goroutine waits for the rate limit.
C20_Witness ==
    /\ Len(containers) = 17
    /\ starts.flight = 16 /\ starts.wait = 1

\* ========================================================================
\* Properties of the runner lock
\* ========================================================================

\* C21: on one runner, while a Healthcheck executes no Run is in progress
\* and no other Healthcheck executes.
C21_HealthcheckAlone ==
    \A c \in Callers :
        call[c] = "Healthcheck" =>
            \A d \in Callers \ {c} : call[d] \notin {"Run", "Healthcheck"}

\* Every caller is inside Run at the same time.
C21_RunsTogether == \A c \in Callers : call[c] = "Run"

\* A Healthcheck executes while another goroutine has called Run.
C21_Witness ==
    \E c \in Callers :
        /\ call[c] = "Healthcheck"
        /\ \E d \in Callers \ {c} : call[d] = "Run:RLock"

\* ========================================================================
\* Properties of the cluster runner
\* ========================================================================

\* C22: when Run of the cluster runner has returned after having scheduled
\* pods, a delete has been issued for every pod it scheduled if keep_service
\* is false, and for none of them if keep_service is true.
C22_DeletesUnlessKept ==
    krun.pc = "returned" /\ krun.next > 1 =>
        \A p \in Pods : p < krun.next => (pods[p].deleted <=> ~keepService)

\* Run has returned an error after the creation of a pod failed, and
\* deleted every pod, the one that was never created included.
C22_Witness ==
    /\ krun.pc = "returned" /\ krun.ret = "err"
    /\ ~keepService
    /\ \E p \in Pods : created[p] = "err"
    /\ \A p \in Pods : pods[p].deleted

\* Run has returned and kept every pod.
C22_WitnessKept ==
    /\ krun.pc = "returned" /\ krun.next > 1
    /\ keepService
    /\ \A p \in Pods : ~pods[p].deleted

\* The CPU a group requests, in hundredths: its own request, or the
\* default per pod when unset, times its instances.
C23_Request(g) == (IF g.CPU = 0 THEN kin.fallbackCPU ELSE g.CPU) * g.Instances

C23_Needed ==
    IF Len(kin.groups) = 1 THEN C23_Request(kin.groups[1])
    ELSE C23_Request(kin.groups[1]) + C23_Request(kin.groups[2])

\* (nodes x allocatable CPU - sidecar reservation per node) x utilisation
\* holds the request (both sides in 1/10000 of a CPU).
C23_Fits == C23_Needed * 100 <= (kin.nodes * kin.nodeCPUs * 100 - kin.nodes * 20) * 85

\* C23: no pod is created unless the CPU requested by all groups fits in
\* the cluster; when it does not fit, for any number of plan-labelled
\* nodes including zero, Run returns an error without creating any pod.
C23_AdmissionBeforePods ==
    /\ (\E p \in Pods : created[p] # "todo") => C23_Fits
    /\ ~C23_Fits =>
          /\ krun.pc \in {"start", "returned"}
          /\ krun.pc = "returned" => krun.ret = "err"
          /\ \A p \in Pods : created[p] = "todo"

\* The same for a cluster with at least one plan-labelled node.
C23_AdmissionBeforePodsWithNodes ==
    /\ (\E p \in Pods : created[p] # "todo") => C23_Fits
    /\ ~C23_Fits /\ kin.nodes > 0 =>
          /\ krun.pc \in {"start", "returned"}
          /\ krun.pc = "returned" => krun.ret = "err"
          /\ \A p \in Pods : created[p] = "todo"

\* C24: Run of the cluster runner ends in every execution; neither Run nor
\* its monitor stays blocked forever, not even on acquiring a client.
C24_RunEnds == <>(krun.pc \in {"returned", "panicked"})

\* Run ends in every execution in which no call of Healthcheck took a
\* client of the pool.
C24_RunEndsUnlessLeak ==
    <>(\/ krun.pc \in {"returned", "panicked"}
       \/ pool + (IF mon.pc = "poll" THEN 1 ELSE 0) < PoolWorkers)

\* ========================================================================
\* Properties of the sidecar
\* ========================================================================

\* The configurations the handler has received so far, in order: 1, 2, ...
C25_Received == Len(published) - Len(networkChanges)

\* C25: the configurations are applied and acknowledged in the order
\* received, each acknowledged exactly once and only after its
\* ConfigureNetwork returned without error; after a failed ConfigureNetwork
\* nothing is acknowledged or applied any more. The counters hold one
\* increment per acknowledgement.
C25_AckAfterApply ==
    /\ \A i \in DOMAIN sideLog :
          /\ sideLog[i].cfg = (i + 1) \div 2
          /\ sideLog[i].cfg <= C25_Received
          /\ i % 2 = 1 => sideLog[i].ev \in {"applied", "failed"}
          /\ i % 2 = 0 => sideLog[i].ev = "signalled" /\ sideLog[i - 1].ev = "applied"
          /\ sideLog[i].ev = "failed" => i = Len(sideLog) /\ side.pc = "returned"
    /\ \A s \in NetStates :
          sideCounter[s] = Cardinality({i \in DOMAIN sideLog :
                                         /\ sideLog[i].ev = "signalled"
                                         /\ published[sideLog[i].cfg] = s})

\* Two configurations were applied and acknowledged, the third failed.
C25_Witness ==
    /\ Len(sideLog) = 5
    /\ sideLog[5] = [ev |-> "failed", cfg |-> 3]
    /\ published = <<"s1", "s2", "s2">>
    /\ sideCounter["s1"] = 1 /\ sideCounter["s2"] = 1

\* The last call of ConfigureNetwork found the network active with an
\* address other than the one it was given.
C26_OtherAddress ==
    /\ ncall.ret # "none"
    /\ ncall.cfg.Network = "default" /\ ncall.cfg.Enable
    /\ ncall.link.id # 0
    /\ \/ ncall.cfg.IPv4 # 0 /\ ncall.cfg.IPv4 # ncall.link.IPv4
       \/ ncall.cfg.IPv6 # 0 /\ ncall.cfg.IPv6 # ncall.link.IPv6

\* C26: ConfigureNetwork with enable=true on an active link whose IPv4 (or
\* IPv6) address differs from the requested one issues the CNI detach
\* before the CNI attach and, when it returns nil, the network is active
\* with the newly attached link; with enable=false it detaches an active
\* network and issues no CNI call for an inactive one.
C26_DetachThenAttach ==
    /\ C26_OtherAddress =>
          /\ ncall.cni # << >> /\ ncall.cni[1] = "DelNetworkList"
          /\ \A i \in DOMAIN ncall.cni : ncall.cni[i] = "AddNetworkList" => i = 2
          /\ ncall.ret = "nil" =>
                /\ ncall.cni = <<"DelNetworkList", "AddNetworkList">>
                /\ activeLinks.id = attached /\ activeLinks.id > ncall.link.id
    /\ ncall.ret # "none" /\ ncall.cfg.Network = "default" /\ ~ncall.cfg.Enable =>
          IF ncall.link.id # 0
          THEN /\ ncall.cni = <<"DelNetworkList">>
               /\ ncall.ret = "nil" => activeLinks = NoLink
          ELSE ncall.cni = << >>

\* The same for the calls that request no IPv6 address.
C26_DetachThenAttachIPv4 == ncall.cfg.IPv6 = 0 => C26_DetachThenAttach

\* ========================================================================
\* Properties of the healthcheck
\* ========================================================================

\* Every check of the report is ok and no fix was applied.
C27_Clean(r) ==
    \A i \in DOMAIN r.items : r.items[i] = [check |-> "ok", fix |-> "omitted"]

\* The invocations so far all asked for the fixes.
C27_AllWithFix == \A i \in DOMAIN reports : reports[i].fix

C28_Done(r) == oruns[r].g > Len(oruns[r].Groups)

\* The directories the run has created.
C28_Dirs(r) == {odirs[r][k].odir : k \in DOMAIN odirs[r]}

\* C28: the output directories of a run in which every instance was
\* launched are one per pair (group ID, ordinal), pairwise distinct, each
\* <plan>/<run-id>/<group>/<i> under the outputs directory; two runs with
\* different run IDs share no output directory.
C28_OnePerInstance ==
    /\ \A r \in 1..NumRuns :
          C28_Done(r) =>
            /\ \A k, l \in DOMAIN odirs[r] : k # l => odirs[r][k].odir # odirs[r][l].odir
            /\ \A k \in DOMAIN odirs[r] :
                  /\ Len(odirs[r][k].odir) = 5
                  /\ SubSeq(odirs[r][k].odir, 1, 4)
                        = <<"outputs", "plan", oruns[r].RunID, odirs[r][k].group>>
            /\ \A n \in DOMAIN oruns[r].Groups :
                  Cardinality({k \in DOMAIN odirs[r] :
                                 odirs[r][k].group = oruns[r].Groups[n].ID})
                     = oruns[r].Groups[n].Instances
    /\ \A r, s \in 1..NumRuns :
          r # s /\ C28_Done(r) /\ C28_Done(s) => C28_Dirs(r) \cap C28_Dirs(s) = {}

\* The group IDs of every run are names.
C28_PlainIDs ==
    \A r \in 1..NumRuns : \A n \in DOMAIN oruns[r].Groups :
        oruns[r].Groups[n].ID \in {"a", "b"}

\* The same for runs whose group IDs are names.
C28_OnePerInstancePlainIDs == C28_PlainIDs => C28_OnePerInstance

\* ========================================================================
\* Properties of the build handler
\* ========================================================================

\* The request cannot be consumed: no body, not multipart, a payload that
\* cannot be read or decoded, an archive that fails to unpack (or comes
\* twice), or a read error after the archives.
C29_Unconsumable ==
    \/ breq.body = "nil"
    \/ breq.contentType # "multipart"
    \/ breq.first # "ok"
    \/ \E i \in DOMAIN breq.parts : breq.parts[i].fails # "none"
    \/ \E i, j \in DOMAIN breq.parts : i # j /\ breq.parts[i].kind = breq.parts[j].kind
    \/ breq.last = "err"

\* The request carries no plan.
C29_NoPlan == \A i \in DOMAIN breq.parts : breq.parts[i].kind # "plan"

\* The terminal chunks of the response.
C29_Terminal == {i \in DOMAIN chunks : chunks[i] \in {"error", "result"}}

\* C29: the build handler calls QueueBuild for no request that cannot be
\* consumed or carries no plan directory, and answers such a request with
\* exactly one error chunk; it answers every request with exactly one
\* terminal chunk, the result or an error, written last.
C29_OneTerminalChunk ==
    /\ C29_Unconsumable \/ C29_NoPlan => queued = 0
    /\ bh.pc # "done" => C29_Terminal = {}
    /\ bh.pc = "done" =>
          /\ C29_Terminal = {Len(chunks)}
          /\ C29_Unconsumable \/ C29_NoPlan => chunks[Len(chunks)] = "error"
          /\ chunks[Len(chunks)] = "result" => queued = 1 /\ breq.queue = "ok"

\* A request with an sdk archive and no plan was answered with an error.
C29_Witness ==
    /\ bh.pc = "done"
    /\ ~C29_Unconsumable /\ C29_NoPlan
    /\ Len(breq.parts) = 1
    /\ queued = 0
    /\ chunks[Len(chunks)] = "error"

\* A request with a plan was queued and answered with its task id.
C29_WitnessQueued ==
    /\ bh.pc = "done"
    /\ queued = 1
    /\ chunks = <<"result">>

\* C30: once creating an output directory, creating a container or
\* attaching it to the data network has failed for an instance of a group,
\* Run starts no container and returns the error.
C30_AbortsOnCreationError ==
    drun.failed =>
        /\ ~starts.spawned
        /\ starts.flight + starts.done = 0
        /\ drun.pc = "returned" => drun.ret = "err"

\* What the code does hold to: the error that stands in err when the loops
\* are over, the one of the last pass, ends Run before any container is
\* started.
C30_AbortsOnLastError ==
    (drun.pc \notin {"start", "merge", "loop"} /\ drun.err) =>
        /\ ~starts.spawned
        /\ starts.flight + starts.done = 0
        /\ drun.pc = "returned" => drun.ret = "err"

\* A pass of the first group failed, the second group was created without
\* an error, and the containers are being started.
C30_StartedAfterFailure ==
    /\ drun.failed
    /\ ~drun.err
    /\ starts.flight > 0

\* C31: deleteContainers, once called, returns, whichever removals fail;
\* it returns only after every removal has completed and its result was
\* received, with as many errors as removals failed, and when it has
\* returned no goroutine is left sending on errs.
C31_DeleteTerminates ==
    /\ (del.pc = "collect") ~> (del.pc = "returned")
    /\ [](del.pc = "returned" =>
             /\ del.done = Len(containers)
             /\ del.wait + del.flight + del.sending = 0)

\* What the code does hold to: deleteContainers returns in every execution
\* in which the loop receives no error, with every result received and no
\* goroutine left.
C31_DeleteTerminatesUnlessError ==
    /\ (del.pc = "collect") ~> (del.pc = "returned" \/ del.failed > 0)
    /\ [](del.pc = "returned" =>
             /\ del.failed = 0
             /\ del.done = Len(containers)
             /\ del.wait + del.flight + del.sending = 0)

\* The loop has received the error of a removal and waits in the same
\* iteration for a further value of errs, which no goroutine is left to
\* send.
C31_LoopBlocked ==
    /\ del.pc = "collect"
    /\ del.second
    /\ del.failed > 0
    /\ del.i < Len(containers)
    /\ del.wait + del.flight + del.sending = 0

\* C32: no Run of the container runner asks for the subnet index of a data
\* network that exists, and no two data networks that exist at the same
\* time have the same index, also with several Runs at once and with the
\* network of an earlier Run removed.
C32_DistinctSubnets ==
    /\ \A r \in NetRuns : ~nruns[r].clash
    /\ \A r, s \in NetRuns :
          (r # s /\ nruns[r].pc = "live" /\ nruns[s].pc = "live")
             => nruns[r].idx # nruns[s].idx

\* What the code does hold to: the index is free when the live networks
\* at the listing had the indices 0..n-1 and did not change before the
\* creation.
C32_DistinctWhenStackedAndAlone ==
    \A r \in NetRuns :
        nruns[r].clash =>
            \/ nruns[r].raced
            \/ nruns[r].seen # 0..(nruns[r].n - 1)

\* Two networks were created one after the other, the first was removed,
\* and a third Run has created its network with the index of the second,
\* which exists.
C32_ClashAfterRemoval ==
    \E r, s \in NetRuns :
        /\ r # s
        /\ nruns[r].pc = "live" /\ nruns[s].pc = "live"
        /\ nruns[r].idx = nruns[s].idx
        /\ nruns[r].clash /\ ~nruns[r].raced

\* Run of the cluster runner has ended and so has its monitor.
C33_AllReturned ==
    /\ krun.pc \in {"returned", "panicked"}
    /\ mon.pc # "poll"

\* C33: never more clients are held than the pool has, and every operation
\* of the cluster runner gives back the client it acquired: once all of
\* them have returned the pool holds all its clients again.
C33_ClientsReleased ==
    /\ pool \in 0..PoolWorkers
    /\ C33_AllReturned => pool = PoolWorkers

\* What the code does hold to: the clients missing once all operations
\* have returned are the ones the calls of Healthcheck have kept.
C33_ClientsReleasedButHealthcheck ==
    /\ pool \in 0..PoolWorkers
    /\ krun.kept \in 0..PoolWorkers
    /\ pool + krun.kept + (IF mon.pc = "poll" THEN 1 ELSE 0) = PoolWorkers

\* Run has returned after a call of Healthcheck; a client is missing.
C33_ClientKept ==
    /\ C33_AllReturned
    /\ krun.kept = 1
    /\ pool = PoolWorkers - 1

\* C34: no two writes to the underlying writer of a response overlap,
\* whichever OutputWriter of the response they go through, derived ones
\* included, and whichever of progress write, WriteResult and WriteError
\* they are.
C34_WritesSerialized == Cardinality(InWrite) <= 1

\* What the code does hold to: of two writes that overlap, one is the
\* WriteResult or WriteError of a derived writer; the progress writes of
\* all writers and the results and errors of the first one are serialized.
C34_SerializedButDerived ==
    \A c, d \in InWrite :
        c # d =>
            \E e \in {c, d} :
                /\ ocall[e].pc = "write"
                /\ ocall[e].kind # "progress"
                /\ ocall[e].w # ProgressLock

\* A progress write and the WriteResult of a derived writer are inside
\* out.Write at once.
C34_Overlap ==
    \E c, d \in InWrite :
        /\ c # d
        /\ ocall[c].kind = "progress"
        /\ ocall[d].kind = "result" /\ ocall[d].w = 2

\* C35: a Barrier with a target above zero has returned nil only if the
\* counter of its state has reached the target; no nil is on its way in
\* doneCh either while the counter is below the target.
C35_NoEarlyNil ==
    \A i \in Instances :
        (inst[i].op = "Barrier" /\ inst[i].target > 0
           /\ (inst[i].ret = "nil" \/ inst[i].done = "nil"))
            => counter[inst[i].key] >= inst[i].target

\* A Barrier with the target 2 has returned nil; the counter is at 2.
C35_Witness ==
    \E i \in Instances :
        /\ inst[i].op = "Barrier" /\ inst[i].pc = "idle"
        /\ inst[i].target = 2
        /\ inst[i].ret = "nil"
        /\ counter[inst[i].key] = 2

\* The worker w is inside a changePrefix and returns an error in this step.
C36_Fails(w) ==
    /\ wk[w].op \in {"ProcessTask", "ArchiveTask"}
    /\ wk[w].pc \in {"tget", "tput", "tdel", "commit"}
    /\ wk'[w].pc = "idle"
    /\ wk'[w].ret = "err"

\* C36: ProcessTask on a task without a key under the queue prefix, and
\* ArchiveTask on a task without a key under the current prefix, return an
\* error (unless the daemon stops first) and change no key; whenever a
\* step of the move fails no key of the store changes and the transaction
\* is discarded.
C36_FailedMoveDiscarded ==
    [][\A w \in Workers :
          /\ (wk[w].pc = "tget" /\ wk'[w] # wk[w]
                 /\ ~DbHas(db, taskKey(wk[w].pfx, wk[w].id)))
                => (wk'[w].pc = "idle" /\ wk'[w].ret # "nil" /\ db' = db)
          /\ C36_Fails(w) => (db' = db /\ txOwner' = 0)]_vars

\* What the code does hold to: the same for the steps before the commit,
\* and after a failed commit no key has changed.
C36_FailedMoveUnchanged ==
    [][\A w \in Workers :
          /\ (wk[w].pc = "tget" /\ wk'[w] # wk[w]
                 /\ ~DbHas(db, taskKey(wk[w].pfx, wk[w].id)))
                => (wk'[w].pc = "idle" /\ wk'[w].ret # "nil" /\ db' = db)
          /\ C36_Fails(w) =>
                /\ db' = db
                /\ wk[w].pc # "commit" => txOwner' = 0]_vars

\* A changePrefix has returned the error of its commit and its
\* transaction is still open.
C36_TransactionLeftOpen ==
    \E w \in Workers :
        /\ txOwner = w
        /\ wk[w].pc = "idle"
        /\ wk[w].ret = "err"

\* C37: after every return of ConfigureNetwork the network is in the
\* active links if and only if it is attached through CNI, and a call
\* that returned an error has left the active links and the attachment as
\* it found them.
C37_RecordedIffAttached ==
    ncall.ret \in {"nil", "err"} =>
        /\ (activeLinks # NoLink) <=> (cniUp # 0)
        /\ ncall.ret = "err" => (activeLinks = ncall.link /\ cniUp = ncall.up)

\* What the code does hold to: a recorded link is the one attached, a
\* call that issued no CNI call has changed nothing, and neither has one
\* whose detach failed.
C37_RecordedOnlyIfAttached ==
    /\ activeLinks # NoLink => cniUp = activeLinks.id
    /\ (ncall.ret # "none"
          /\ (ncall.cni = << >>
                \/ (ncall.cni = <<"DelNetworkList">> /\ ncall.ret = "err"
                      /\ ~ncall.cfg.Enable)))
          => (activeLinks = ncall.link /\ cniUp = ncall.up)

\* ConfigureNetwork has attached the network through CNI and returned an
\* error from the registration of the link: attached, and not recorded.
C37_AttachedNotRecorded ==
    /\ ncall.ret = "err"
    /\ ncall.cni = <<"AddNetworkList">>
    /\ activeLinks = NoLink
    /\ cniUp # 0 /\ ncall.up = 0

\* The configurations ConfigureNetwork was called with, in order.
C38_Configured ==
    SelectSeq(sideLog, LAMBDA e : e.ev \in {"applied", "failed"})

\* C38: the handler signals network-initialized exactly once; it calls
\* ConfigureNetwork only when the counter of network-initialized has
\* reached the instance count of the run; the configurations are applied
\* in the order of their publication without a gap, those published
\* before the subscription included, and when the handler waits on an
\* empty channel or has returned nil all of them have been applied.
C38_InitThenReplay ==
    /\ OwnNetInit <= 1
    /\ side.pc \in {"barrier", "subscribe", "range", "configure", "signal"}
          /\ sideLog # << >> => OwnNetInit = 1
    /\ (side.pc = "configure" \/ C38_Configured # << >>)
          => sideCounter[netInitState] >= TestInstanceCount
    /\ \A i \in DOMAIN C38_Configured : C38_Configured[i].cfg = i
    /\ (side.pc = "range" /\ networkChanges = << >>) \/ side.ret = "nil"
          => Len(C38_Configured) = Len(published)

\* Two configurations were published before the handler subscribed, and
\* both were applied after the barrier.
C38_Witness ==
    /\ side.replayed = 2
    /\ OwnNetInit = 1
    /\ sideCounter[netInitState] = TestInstanceCount
    /\ Len(C38_Configured) >= 2
    /\ C38_Configured[2] = [ev |-> "applied", cfg |-> 2]

\* The tasks stored under the prefix whose second t has start <= t < end.
C39_InWindow(d, prefix, start, end) ==
    {id \in LaterIDs : /\ DbHas(d, taskKey(prefix, id))
                       /\ start <= xidTime(id)
                       /\ xidTime(id) < end}

\* The answer of a call of Filter is exact: the tasks of the window under
\* the prefix of the state, each once, in ascending order of the second.
C39_Exact ==
    LET ans == filtered'.tasks IN
    /\ {ans[i] : i \in DOMAIN ans} =
          C39_InWindow(db, StatePrefix(filtered'.state), filtered'.start,
                       filtered'.end)
    /\ \A i, j \in DOMAIN ans :
          i < j => ans[i] # ans[j] /\ xidTime(ans[i]) <= xidTime(ans[j])

\* C39: Filter(state, start, end) returns exactly the tasks stored under
\* the prefix of the state whose second t satisfies start <= t < end, in
\* ascending order of the second, and no task of another state.
C39_FilterExact ==
    [][filtered = NoFilter /\ filtered' # NoFilter => C39_Exact]_vars

\* The decimal forms of two numbers have the same length and sign.
C39_SameWidth(a, b) == Len(FormatInt(a)) = Len(FormatInt(b)) /\ (a < 0) = (b < 0)

\* C39 (supporting): the answer is exact when the seconds of start, of
\* end and of the stored tasks are written with the same number of digits.
C39_ExactAtSameWidth ==
    [][/\ filtered = NoFilter /\ filtered' # NoFilter
       /\ C39_SameWidth(filtered'.start, filtered'.end)
       /\ \A k \in DOMAIN db : C39_SameWidth(k[2], filtered'.start)
       => C39_Exact]_vars

\* A window that starts at a one-digit second misses a stored task of a
\* two-digit second.
C39_TaskMissed ==
    /\ filtered.state = StateComplete
    /\ filtered.start = 9
    /\ filtered.end = 12
    /\ filtered.tasks = << >>
    /\ DbHas(db, taskKey(prefixComplete, FirstLaterID))
====
